---- MODULE Spec2Model ----
(***************************************************************************)
(* Road-network router and trip-playback scheduler of nyc-taxis.           *)
(*                                                                         *)
(* Lengths are integers in units of 0.05 world units, so the node dedupe   *)
(* precision PREC = 0.5 of map.js is 10 units.  Input points are drawn     *)
(* from sets whose pairwise distances are whole numbers of units, so       *)
(* Math.hypot and Vector3.distanceTo are computed exactly.  Times are      *)
(* seconds, as in the code.                                                *)
(***************************************************************************)
EXTENDS Integers, Sequences, FiniteSets, TLC

VARIABLES
    router,          \* Simulation.router: the road router the scheduler queries (or none)
    trips,           \* Simulation.trips with their lazily cached fields
    pool,            \* the orb pool made by createPool
    activeOrbs,      \* Simulation.activeOrbs: pool indices, in push order
    activeTrails,    \* Simulation.activeTrails
    simulationTime,
    playing,
    speed,
    userSpeed,
    gapAccelActive,
    startedCount,
    completedCount,
    nextTripIndex,   \* 0-based, as in the code
    mapGroup,        \* the map: road types (typeData) and userData.roadRouter
    lastCall,        \* history: the last operation and what it observed
    hist             \* history: per-trip facts accumulated since the last resetTo

vars == << router, trips, pool, activeOrbs, activeTrails, simulationTime, playing,
           speed, userSpeed, gapAccelActive, startedCount, completedCount,
           nextTripIndex, mapGroup, lastCall, hist >>

simVars == << trips, pool, activeOrbs, activeTrails, simulationTime, playing,
              speed, userSpeed, gapAccelActive, startedCount, completedCount,
              nextTripIndex >>

-----------------------------------------------------------------------------
(* Bounds of the model *)

MaxPolylines == 2      \* polylines handed to buildRoadRouter
MaxRouteCalls == 3     \* router operations explored per graph in SpecRouter
MaxTrips == 3          \* trips in a scheduler run
MaxPoolSize == 2       \* createPool(size)
MaxDtSteps == 2        \* update(dt): dt is 0, 5, .., 5 * MaxDtSteps real seconds
MaxClock == 900        \* the clock of a run over an empty trip list stops here

-----------------------------------------------------------------------------
(* Geometry *)

Pt(x, z) == [x |-> x, z |-> z]

Abs(n) == IF n < 0 THEN -n ELSE n

\* Math.hypot(dx, dz) / Vector3.distanceTo on points whose distance is a whole
\* number of units
Hypot(dx, dz) == CHOOSE r \in 0..(Abs(dx) + Abs(dz)) : r * r = dx * dx + dz * dz

distanceTo(p, q) == Hypot(p.x - q.x, p.z - q.z)

PREC == 10

\* Math.round(v / PREC) * PREC: Math.round rounds halves up
RoundCell(v) == ((2 * v + PREC) \div (2 * PREC)) * PREC

\* a faulty key: the coordinates are not rounded to the grid
keyForExact(x, z) == << x, z >>

\* keyFor(x,z): the two rounded coordinates, printed with two decimals and
\* joined by a comma; the string is determined by the pair of rounded values
keyFor(x, z) == << RoundCell(x), RoundCell(z) >>

-----------------------------------------------------------------------------
(* Road graph: buildRoadRouter *)

NoKey == << >>
NullPath == << >>
NoPoint == [none |-> TRUE]

EmptyGraph == [order |-> << >>, xz |-> << >>, edges |-> << >>]

\* getNode(v): the node of v's cell, created with v's coordinates on first sight
getNode(G, v) ==
    LET k == keyFor(v.x, v.z) IN
    IF k \in DOMAIN G.xz THEN G
    ELSE [order |-> Append(G.order, k),
          xz    |-> (k :> Pt(v.x, v.z)) @@ G.xz,
          edges |-> (k :> << >>) @@ G.edges]

\* a faulty iteration: the edge is added even when both points resolve to one node
AddSegmentKeepsLoops(G, p, q) ==
    LET G1 == getNode(G, p)
        G2 == getNode(G1, q)
        a  == keyFor(p.x, p.z)
        b  == keyFor(q.x, q.z)
        w  == Hypot(G2.xz[a].x - G2.xz[b].x, G2.xz[a].z - G2.xz[b].z)
    IN  [G2 EXCEPT !.edges =
            [k \in DOMAIN G2.edges |->
                IF k = a THEN Append(G2.edges[a], [to |-> b, w |-> w])
                ELSE IF k = b THEN Append(G2.edges[b], [to |-> a, w |-> w])
                ELSE G2.edges[k]]]

\* one iteration of the inner loop of buildRoadRouter
AddSegment(G, p, q) ==
    LET G1 == getNode(G, p)
        G2 == getNode(G1, q)
        a  == keyFor(p.x, p.z)
        b  == keyFor(q.x, q.z)
        w  == Hypot(G2.xz[a].x - G2.xz[b].x, G2.xz[a].z - G2.xz[b].z)
    IN  IF a = b THEN G2
        ELSE [G2 EXCEPT !.edges =
                 [k \in DOMAIN G2.edges |->
                     IF k = a THEN Append(G2.edges[a], [to |-> b, w |-> w])
                     ELSE IF k = b THEN Append(G2.edges[b], [to |-> a, w |-> w])
                     ELSE G2.edges[k]]]

RECURSIVE AddLine(_, _, _)
AddLine(G, line, i) ==
    IF i >= Len(line) THEN G
    ELSE AddLine(AddSegment(G, line[i], line[i + 1]), line, i + 1)

RECURSIVE AddLines(_, _, _)
AddLines(G, polylines, j) ==
    IF j > Len(polylines) THEN G
    ELSE AddLines(AddLine(G, polylines[j], 1), polylines, j + 1)

NoRouter == [present |-> FALSE, graph |-> EmptyGraph, pathCache |-> << >>]

buildRoadRouter(polylines) ==
    [present |-> TRUE, graph |-> AddLines(EmptyGraph, polylines, 1), pathCache |-> << >>]

\* rebuildRouter(): the polylines of the enabled road types, from type t on
RECURSIVE EnabledPolylines(_, _)
EnabledPolylines(typeData, t) ==
    IF t > Len(typeData) THEN << >>
    ELSE IF typeData[t].enabled
         THEN typeData[t].polylines \o EnabledPolylines(typeData, t + 1)
         ELSE EnabledPolylines(typeData, t + 1)

\* rebuildRouter(): userData.roadRouter is a new router over the enabled types
rebuildRouter(typeData) == buildRoadRouter(EnabledPolylines(typeData, 1))

\* toggleRoadType(type, enabled) on the map M
toggleRoadType(M, type, enabled) ==
    IF type \notin 1..Len(M.typeData) THEN M
    ELSE IF M.typeData[type].enabled = enabled THEN M
    ELSE [typeData |-> [M.typeData EXCEPT ![type].enabled = enabled],
          roadRouter |-> rebuildRouter([M.typeData EXCEPT ![type].enabled = enabled])]

-----------------------------------------------------------------------------
(* Router: nearestNode and route *)

Dist2(n, v) == (n.x - v.x) * (n.x - v.x) + (n.z - v.z) * (n.z - v.z)

\* nearestNode(v): linear scan in node insertion order, strict "<" keeps the first
\* of equally near nodes; NoKey on an empty graph
nearestNode(G, v) ==
    IF Len(G.order) = 0 THEN NoKey
    ELSE LET i == CHOOSE i \in 1..Len(G.order) :
                    \A j \in 1..Len(G.order) :
                        \/ Dist2(G.xz[G.order[j]], v) > Dist2(G.xz[G.order[i]], v)
                        \/ (Dist2(G.xz[G.order[j]], v) = Dist2(G.xz[G.order[i]], v) /\ j >= i)
         IN  G.order[i]

\* the frontier scan of route: index of the first entry of least tentative distance
PickBest(frontier, dist) ==
    CHOOSE i \in 1..Len(frontier) :
        \A j \in 1..Len(frontier) :
            \/ dist[frontier[j]] > dist[frontier[i]]
            \/ (dist[frontier[j]] = dist[frontier[i]] /\ j >= i)

Splice(s, i) == SubSeq(s, 1, i - 1) \o SubSeq(s, i + 1, Len(s))

\* the relaxation loop over u.edges
RECURSIVE Relax(_, _, _, _)
Relax(st, u, es, j) ==
    IF j > Len(es) THEN st
    ELSE LET to  == es[j].to
             w   == es[j].w
             alt == st.dist[u] + w
         IN  IF w = 0 THEN Relax(st, u, es, j + 1)
             ELSE IF to \notin DOMAIN st.dist \/ alt < st.dist[to]
                  THEN Relax([st EXCEPT !.dist = (to :> alt) @@ st.dist,
                                        !.prev = (to :> u) @@ st.prev,
                                        !.frontier = Append(st.frontier, to)],
                             u, es, j + 1)
                  ELSE Relax(st, u, es, j + 1)

\* the while (frontier.length) loop of route
RECURSIVE Search(_, _, _)
Search(G, st, t) ==
    IF Len(st.frontier) = 0 THEN st
    ELSE LET bestI == PickBest(st.frontier, st.dist)
             u     == st.frontier[bestI]
             st1   == [st EXCEPT !.frontier = Splice(st.frontier, bestI)]
         IN  IF u = t THEN st1
             ELSE IF u \in st1.visited THEN Search(G, st1, t)
             ELSE Search(G, Relax([st1 EXCEPT !.visited = st1.visited \cup {u}],
                                  u, G.edges[u], 1), t)

\* the predecessor walk of route: t, prev(t), .., until s or a node with no predecessor
RECURSIVE WalkBack(_, _, _)
WalkBack(prev, s, cur) ==
    IF cur = s THEN << cur >>
    ELSE IF cur \notin DOMAIN prev THEN << cur >>
    ELSE << cur >> \o WalkBack(prev, s, prev[cur])

Reverse(s) == [i \in 1..Len(s) |-> s[Len(s) + 1 - i]]

\* the search of route between two nodes, without the cache: the point list or null
SearchPath(G, s, t) ==
    LET st  == Search(G, [dist |-> (s :> 0), prev |-> << >>, visited |-> {},
                          frontier |-> << s >>], t)
        rev == WalkBack(st.prev, s, t)
        ord == Reverse(rev)
    IN  IF t \notin DOMAIN st.prev /\ s # t THEN NullPath
        ELSE [i \in 1..Len(ord) |-> Pt(G.xz[ord[i]].x, G.xz[ord[i]].z)]

\* the cache key of route: keyFor of the two query points, joined by "|"
CacheKey(start, end) == << keyFor(start.x, start.z), keyFor(end.x, end.z) >>

\* a faulty route(): with no node to snap to it answers the straight segment
routeStraightWithoutNodes(R, start, end) ==
    IF start = NoPoint \/ end = NoPoint THEN [result |-> NullPath, router |-> R]
    ELSE LET k == CacheKey(start, end) IN
         IF k \in DOMAIN R.pathCache THEN [result |-> R.pathCache[k], router |-> R]
         ELSE LET s == nearestNode(R.graph, start)
                  t == nearestNode(R.graph, end)
              IN  IF s = NoKey \/ t = NoKey
                  THEN [result |-> << start, end >>, router |-> R]
                  ELSE LET p == SearchPath(R.graph, s, t)
                       IN  [result |-> p,
                            router |-> [R EXCEPT !.pathCache = (k :> p) @@ R.pathCache]]

\* route(start, end) on router R: the result and the router afterwards
route(R, start, end) ==
    IF start = NoPoint \/ end = NoPoint THEN [result |-> NullPath, router |-> R]
    ELSE LET k == CacheKey(start, end) IN
         IF k \in DOMAIN R.pathCache THEN [result |-> R.pathCache[k], router |-> R]
         ELSE LET s == nearestNode(R.graph, start)
                  t == nearestNode(R.graph, end)
              IN  IF s = NoKey \/ t = NoKey THEN [result |-> NullPath, router |-> R]
                  ELSE LET p == SearchPath(R.graph, s, t)
                       IN  [result |-> p,
                            router |-> [R EXCEPT !.pathCache = (k :> p) @@ R.pathCache]]

-----------------------------------------------------------------------------
(* Entity pool: pool.js *)

NoLabel == [dest |-> NoPoint]

\* createPool(size): size inactive orbs, bound to no trip, carrying no label
\* baseScale is in hundredths, 0 while unset; finishStarted is unset (falsy) at first
createPool(size) ==
    [i \in 1..size |-> [active |-> FALSE, visible |-> FALSE, trip |-> 0, label |-> NoLabel,
                        baseScale |-> 0, finishStarted |-> FALSE]]

\* activateOrb(orb, trip, color): trip is the index of the trip in Simulation.trips
\* baseScale: Math.max(0.35, Math.log10(trip.fare + 1) * 0.45 + 0.15) for the fare 0 of
\* the model's trips. spawnTime is set to performance.now(), which is not kept: it is
\* set on every orb that is active
activateOrb(orb, trip) ==
    [orb EXCEPT !.visible = TRUE, !.active = TRUE, !.trip = trip, !.baseScale = 35,
                !.finishStarted = FALSE]

\* a faulty deactivateOrb(): userData.trip is left set
deactivateOrbKeepsTrip(orb) ==
    [orb EXCEPT !.visible = FALSE, !.active = FALSE, !.baseScale = 40]

\* a faulty deactivateOrb(): the flag active is flipped instead of cleared
deactivateOrbFlips(orb) ==
    [orb EXCEPT !.visible = FALSE, !.active = ~@, !.trip = 0, !.baseScale = 40]

\* deactivateOrb(orb)
deactivateOrb(orb) ==
    [orb EXCEPT !.visible = FALSE, !.active = FALSE, !.trip = 0, !.baseScale = 40]

\* a faulty acquire: with no inactive orb it hands out the first orb of the pool
PoolFindReusesFirst(p) ==
    IF \E i \in 1..Len(p) : ~p[i].active
    THEN CHOOSE i \in 1..Len(p) : ~p[i].active /\ \A j \in 1..(i - 1) : p[j].active
    ELSE IF Len(p) > 0 THEN 1 ELSE 0

\* this.pool.find(o => !o.userData.active): index of the first inactive orb, 0 for
\* undefined
PoolFind(p) ==
    IF \E i \in 1..Len(p) : ~p[i].active
    THEN CHOOSE i \in 1..Len(p) : ~p[i].active /\ \A j \in 1..(i - 1) : p[j].active
    ELSE 0

-----------------------------------------------------------------------------
(* Scheduler: Simulation *)

InitialSpeed == 30
maxRealWaitTime == 5
moderateGapSpeed == 1000
extremeGapSpeed == 10000
shortGapThreshold == 300
longGapThreshold == 3600
SecondsPerDay == 86400
SpeedChangeFactor == 10

Min(a, b) == IF a < b THEN a ELSE b
Max(a, b) == IF a > b THEN a ELSE b
Sign(n) == IF n > 0 THEN 1 ELSE IF n < 0 THEN -1 ELSE 0

\* a / b where the quotient is a whole number
ExactDiv(a, b) == CHOOSE q \in 0..a : q * b = a

RECURSIVE SumSeq(_, _)
SumSeq(s, k) == IF k = 0 THEN 0 ELSE s[k] + SumSeq(s, k - 1)

\* a trip as loadTrips makes it: no cached route, not started, not completed
Trip(s, e, sp, ep) ==
    [startTime |-> s, endTime |-> e, startPos |-> sp, endPos |-> ep,
     started |-> FALSE, completed |-> FALSE,
     path |-> NullPath, segLengths |-> << >>, totalLength |-> 0,
     destinationLabel |-> NoLabel]

\* the label text update() derives from the trip's destination
LabelFor(trip) == [dest |-> trip.endPos]

NoAcq == [tried |-> FALSE, got |-> 0, before |-> << >>, after |-> << >>]

\* the scheduler's fields as one record, threaded through the steps of a call;
\* ret: update() has returned early; acq, boundNow: what the call observed
Sim == [router |-> router, trips |-> trips, pool |-> pool, activeOrbs |-> activeOrbs,
        activeTrails |-> activeTrails, simulationTime |-> simulationTime,
        playing |-> playing, speed |-> speed, userSpeed |-> userSpeed,
        gapAccelActive |-> gapAccelActive, startedCount |-> startedCount,
        completedCount |-> completedCount, nextTripIndex |-> nextTripIndex,
        ret |-> FALSE, acq |-> NoAcq, boundNow |-> {}]

Commit(S) ==
    /\ router' = S.router
    /\ trips' = S.trips
    /\ pool' = S.pool
    /\ activeOrbs' = S.activeOrbs
    /\ activeTrails' = S.activeTrails
    /\ simulationTime' = S.simulationTime
    /\ playing' = S.playing
    /\ speed' = S.speed
    /\ userSpeed' = S.userSpeed
    /\ gapAccelActive' = S.gapAccelActive
    /\ startedCount' = S.startedCount
    /\ completedCount' = S.completedCount
    /\ nextTripIndex' = S.nextTripIndex
    /\ UNCHANGED mapGroup

\* a faulty prepareTripPath: any non-null answer of the router is stored as the path
StorePathAsAnswered(S, i, start, end, q) ==
    LET path == q.result IN
    IF S.router.present /\ path # NullPath
    THEN LET segLengths == [k \in 1..(Len(path) - 1) |-> distanceTo(path[k], path[k + 1])]
             total == SumSeq(segLengths, Len(segLengths))
         IN  [S EXCEPT !.router = q.router,
                       !.trips[i].path = path,
                       !.trips[i].segLengths = segLengths,
                       !.trips[i].totalLength =
                           IF total # 0 THEN total ELSE distanceTo(start, end)]
    ELSE [S EXCEPT !.router = q.router,
                   !.trips[i].path = << start, end >>,
                   !.trips[i].segLengths = << distanceTo(start, end) >>,
                   !.trips[i].totalLength = distanceTo(start, end)]

\* prepareTripPath(trip): what is stored on trips[i], given the answer q of
\* this.router.route(start, end) (a null result when there is no router)
StorePath(S, i, start, end, q) ==
    LET path == q.result IN
    IF S.router.present /\ path # NullPath /\ Len(path) >= 2
    THEN LET segLengths == [k \in 1..(Len(path) - 1) |-> distanceTo(path[k], path[k + 1])]
             total == SumSeq(segLengths, Len(segLengths))
         IN  [S EXCEPT !.router = q.router,
                       !.trips[i].path = path,
                       !.trips[i].segLengths = segLengths,
                       !.trips[i].totalLength =
                           IF total # 0 THEN total ELSE distanceTo(start, end)]
    ELSE [S EXCEPT !.router = q.router,
                   !.trips[i].path = << start, end >>,
                   !.trips[i].segLengths = << distanceTo(start, end) >>,
                   !.trips[i].totalLength = distanceTo(start, end)]

\* prepareTripPath(trip) for trips[i]
prepareTripPath(S, i) ==
    IF S.trips[i].path # NullPath THEN S
    ELSE StorePath(S, i, Pt(S.trips[i].startPos.x, S.trips[i].startPos.z),
                   Pt(S.trips[i].endPos.x, S.trips[i].endPos.z),
                   IF S.router.present
                   THEN route(S.router, Pt(S.trips[i].startPos.x, S.trips[i].startPos.z),
                              Pt(S.trips[i].endPos.x, S.trips[i].endPos.z))
                   ELSE [result |-> NullPath, router |-> S.router])

\* createTrailForTrip(trip, color): a new, not fading trail of trips[i]
\* createTrailForTrip: the trail is added once the path is prepared
AddTrail(S, i) ==
    IF S.trips[i].path = NullPath \/ Len(S.trips[i].path) < 2 THEN S
    ELSE [S EXCEPT !.activeTrails = Append(@, [trip |-> i, fading |-> FALSE])]

createTrailForTrip(S, i) == AddTrail(prepareTripPath(S, i), i)

\* a position that is not a number: the result of 0 / 0
NaNPos == [nan |-> TRUE]

\* Vector3.lerpVectors(a, b, num / den) in the x,z plane; the coordinates are kept
\* over the denominator d. A zero den is the division by a zero segLen: the two
\* points coincide and 0 * (num / 0) is NaN for every num.
lerpVectors(a, b, num, den) ==
    IF den = 0 THEN NaNPos
    ELSE [x |-> a.x * den + (b.x - a.x) * num,
          z |-> a.z * den + (b.z - a.z) * num,
          d |-> den]

\* positionOrb(): the walk over the segments from segment k on, acc being the
\* length before it, for t = tn / td
RECURSIVE WalkSegments(_, _, _, _, _)
WalkSegments(trip, k, acc, tn, td) ==
    IF k > Len(trip.path) - 1
    THEN [x |-> trip.path[Len(trip.path)].x, z |-> trip.path[Len(trip.path)].z, d |-> 1]
    ELSE IF (acc + trip.segLengths[k]) * td >= tn * trip.totalLength
         THEN lerpVectors(trip.path[k], trip.path[k + 1],
                          tn * trip.totalLength - acc * td, trip.segLengths[k] * td)
         ELSE WalkSegments(trip, k + 1, acc + trip.segLengths[k], tn, td)

\* positionOrb(): the 0-based index i of the segment the walk selects from segment k
\* on; path.length - 1 when the walk runs through to the end fallback
RECURSIVE SegmentIndex(_, _, _, _, _)
SegmentIndex(trip, k, acc, tn, td) ==
    IF k > Len(trip.path) - 1 THEN Len(trip.path) - 1
    ELSE IF (acc + trip.segLengths[k]) * td >= tn * trip.totalLength THEN k - 1
         ELSE SegmentIndex(trip, k + 1, acc + trip.segLengths[k], tn, td)

\* updateTrailProgress(): the vertex count given to setDrawRange by the walk from
\* segment k on, for targetDist = (tn / td) * total
RECURSIVE DrawRange(_, _, _, _, _, _)
DrawRange(trip, total, k, acc, tn, td) ==
    IF k > Len(trip.segLengths) THEN Len(trip.path)
    ELSE IF (acc + trip.segLengths[k]) * td >= tn * total THEN k + 1
         ELSE DrawRange(trip, total, k + 1, acc + trip.segLengths[k], tn, td)

\* a faulty trail update: the draw range counts the vertices still ahead
updateTrailProgressAhead(trip, tn, td) ==
    IF trip.path = NullPath THEN 0
    ELSE Len(trip.path) + 2
           - DrawRange(trip, IF trip.totalLength # 0 THEN trip.totalLength ELSE 1,
                       1, 0, tn, td)

\* updateTrailProgress(trail, t) on the trail of the trip: the draw range of the
\* trail's geometry (0: the trail is left as it was)
updateTrailProgress(trip, tn, td) ==
    IF trip.path = NullPath THEN 0
    ELSE DrawRange(trip, IF trip.totalLength # 0 THEN trip.totalLength ELSE 1,
                   1, 0, tn, td)

\* positionOrb(orb, trip, t) on the prepared trip: the position given to the orb
\* (NoPoint: the position is left as it was)
positionOrb(trip, tn, td) ==
    IF trip.path = NullPath \/ Len(trip.path) < 2 THEN NoPoint
    ELSE WalkSegments(trip, 1, 0, tn, td)

AllActive(p) == \A j \in 1..Len(p) : p[j].active

\* what an acquire attempt on a fully active pool got and did to the pool
NoteAcquire(S, o, S2) ==
    IF ~S.acq.tried /\ AllActive(S.pool)
    THEN [S2 EXCEPT !.acq = [tried |-> TRUE, got |-> o, before |-> S.pool,
                             after |-> S2.pool]]
    ELSE S2

\* a faulty clock advance: the clock is not clamped to the final trip's endTime
AdvanceClockUnclamped(S, dt) ==
    IF ~S.playing THEN S
    ELSE LET t == S.simulationTime + dt * S.speed IN
         IF Len(S.trips) > 0 /\ t >= S.trips[Len(S.trips)].endTime
         THEN [S EXCEPT !.simulationTime = t, !.playing = FALSE]
         ELSE [S EXCEPT !.simulationTime = t]

\* a faulty clock advance: the clock is clamped but playback is not paused
AdvanceClockNoPause(S, dt) ==
    IF ~S.playing THEN S
    ELSE LET t == S.simulationTime + dt * S.speed IN
         IF Len(S.trips) > 0 /\ t >= S.trips[Len(S.trips)].endTime
         THEN [S EXCEPT !.simulationTime = S.trips[Len(S.trips)].endTime]
         ELSE [S EXCEPT !.simulationTime = t]

\* update(): the clock advance
AdvanceClock(S, dt) ==
    IF ~S.playing THEN S
    ELSE LET t == S.simulationTime + dt * S.speed IN
         IF Len(S.trips) > 0 /\ t >= S.trips[Len(S.trips)].endTime
         THEN [S EXCEPT !.simulationTime = S.trips[Len(S.trips)].endTime,
                        !.playing = FALSE]
         ELSE [S EXCEPT !.simulationTime = t]

\* a faulty fast-forward: the trip is marked and passed but not counted as completed
FastForwardUncounted(S, i) ==
    [S EXCEPT !.trips[i].started = TRUE,
              !.trips[i].completed = TRUE,
              !.startedCount = IF S.trips[i].started THEN @ ELSE @ + 1,
              !.nextTripIndex = @ + 1]

\* update(): the fast-forward branch for a trip that has already ended
FastForward(S, i) ==
    [S EXCEPT !.trips[i].started = TRUE,
              !.trips[i].completed = TRUE,
              !.startedCount = IF S.trips[i].started THEN @ ELSE @ + 1,
              !.completedCount = IF S.trips[i].completed THEN @ ELSE @ + 1,
              !.nextTripIndex = @ + 1]

\* activateOrb(orb, trip, color) on pool[o]
BindOrb(S, i, o) == [S EXCEPT !.pool[o] = activateOrb(S.pool[o], i)]

\* update(): the destination label, created only for an orb that carries none
LabelOrb(S, i, o) ==
    IF S.pool[o].label = NoLabel
    THEN [S EXCEPT !.pool[o].label = LabelFor(S.trips[i]),
                   !.trips[i].destinationLabel = LabelFor(S.trips[i])]
    ELSE S

\* update(): the trip is counted started, the orb pushed, the cursor advanced
Launch(S, i, o) ==
    [S EXCEPT !.trips[i].started = TRUE,
              !.startedCount = IF S.trips[i].started THEN @ ELSE @ + 1,
              !.activeOrbs = Append(@, o),
              !.nextTripIndex = @ + 1,
              !.boundNow = @ \cup {i}]

\* update(): binding trips[i] to the orb pool[o]
Activate(S, i, o) ==
    Launch(LabelOrb(createTrailForTrip(BindOrb(prepareTripPath(S, i), i, o), i), i, o), i, o)

\* a faulty activation sweep: on pool exhaustion the blocked trip is passed over
RECURSIVE ActivationSweepSkipsBlocked(_)
ActivationSweepSkipsBlocked(S) ==
    IF S.nextTripIndex >= Len(S.trips) THEN S
    ELSE LET i    == S.nextTripIndex + 1
             trip == S.trips[i]
         IN  IF trip.startTime > S.simulationTime THEN S
             ELSE IF trip.endTime <= S.simulationTime
                  THEN ActivationSweepSkipsBlocked(FastForward(S, i))
             ELSE LET o == PoolFind(S.pool) IN
                  IF o = 0 THEN NoteAcquire(S, o, [S EXCEPT !.ret = TRUE,
                                                            !.nextTripIndex = @ + 1])
                  ELSE ActivationSweepSkipsBlocked(NoteAcquire(S, o, Activate(S, i, o)))

\* a faulty activation sweep: it stops at a trip that starts exactly at the clock
RECURSIVE ActivationSweepStopsAtClock(_)
ActivationSweepStopsAtClock(S) ==
    IF S.nextTripIndex >= Len(S.trips) THEN S
    ELSE LET i    == S.nextTripIndex + 1
             trip == S.trips[i]
         IN  IF trip.startTime >= S.simulationTime THEN S
             ELSE IF trip.endTime <= S.simulationTime
                  THEN ActivationSweepStopsAtClock(FastForward(S, i))
             ELSE LET o == PoolFind(S.pool) IN
                  IF o = 0 THEN NoteAcquire(S, o, [S EXCEPT !.ret = TRUE])
                  ELSE ActivationSweepStopsAtClock(NoteAcquire(S, o, Activate(S, i, o)))

\* update(): the activation sweep; on pool exhaustion update() returns
RECURSIVE ActivationSweep(_)
ActivationSweep(S) ==
    IF S.nextTripIndex >= Len(S.trips) THEN S
    ELSE LET i    == S.nextTripIndex + 1
             trip == S.trips[i]
         IN  IF trip.startTime > S.simulationTime THEN S
             ELSE IF trip.endTime <= S.simulationTime
                  THEN ActivationSweep(FastForward(S, i))
             ELSE LET o == PoolFind(S.pool) IN
                  IF o = 0 THEN NoteAcquire(S, o, [S EXCEPT !.ret = TRUE])
                  ELSE ActivationSweep(NoteAcquire(S, o, Activate(S, i, o)))

\* progress >= 1 for progress = (clock - startTime) / (endTime - startTime),
\* endTime > startTime
ProgressDone(trip, clock) == clock - trip.startTime >= trip.endTime - trip.startTime

\* update(): retiring the orb at position k of activeOrbs
Retire(S, k) ==
    LET o  == S.activeOrbs[k]
        ti == S.pool[o].trip
    IN  [S EXCEPT !.pool[o] = deactivateOrb(S.pool[o]),
                  !.activeOrbs = Splice(@, k),
                  !.trips[ti].completed = TRUE,
                  !.completedCount = IF S.trips[ti].completed THEN @ ELSE @ + 1,
                  !.activeTrails = [n \in 1..Len(@) |->
                                       IF @[n].trip = ti THEN [@[n] EXCEPT !.fading = TRUE]
                                       ELSE @[n]]]

\* update(): the sweep over activeOrbs, from the last entry down to the first
RECURSIVE AdvanceActive(_, _)
AdvanceActive(S, k) ==
    IF k < 1 THEN S
    ELSE LET o  == S.activeOrbs[k]
             ti == S.pool[o].trip
         IN  IF ti = 0
             THEN AdvanceActive([S EXCEPT !.activeOrbs = Splice(@, k)], k - 1)
             ELSE IF ProgressDone(S.trips[ti], S.simulationTime)
                  THEN AdvanceActive(Retire(S, k), k - 1)
                  ELSE AdvanceActive(S, k - 1)

\* a faulty handleGapAcceleration(): the speed jumps to the target in one check
handleGapAccelerationUnsmoothed(S, gapDuration, isDayTransition) ==
    IF gapDuration <= maxRealWaitTime * S.userSpeed
    THEN IF S.gapAccelActive
         THEN [S EXCEPT !.gapAccelActive = FALSE, !.speed = S.userSpeed]
         ELSE S
    ELSE [S EXCEPT !.gapAccelActive = TRUE,
                   !.speed = IF isDayTransition \/ gapDuration > longGapThreshold
                             THEN extremeGapSpeed
                             ELSE moderateGapSpeed]

\* handleGapAcceleration(gapDuration, isDayTransition)
handleGapAcceleration(S, gapDuration, isDayTransition) ==
    IF gapDuration <= maxRealWaitTime * S.userSpeed
    THEN IF S.gapAccelActive
         THEN [S EXCEPT !.gapAccelActive = FALSE, !.speed = S.userSpeed]
         ELSE S
    ELSE LET targetSpeed ==
                 IF isDayTransition \/ gapDuration > longGapThreshold
                 THEN extremeGapSpeed
                 ELSE IF gapDuration > shortGapThreshold THEN moderateGapSpeed
                 ELSE Max(S.userSpeed,
                          Min(moderateGapSpeed, ExactDiv(gapDuration, maxRealWaitTime)))
             speedDiff == targetSpeed - S.speed
             maxSpeedChangePerCheck == S.userSpeed * SpeedChangeFactor
             stepped == IF Abs(speedDiff) > maxSpeedChangePerCheck
                        THEN S.speed + Sign(speedDiff) * maxSpeedChangePerCheck
                        ELSE targetSpeed
         IN  [S EXCEPT !.gapAccelActive = TRUE,
                       !.speed = Max(S.userSpeed, Min(extremeGapSpeed, stepped))]

\* a faulty gap check: with active trips it clears the flag but keeps the speed
updateGapAccelerationKeepsSpeed(S, due) ==
    IF ~S.playing THEN S
    ELSE IF ~due THEN S
    ELSE IF Len(S.activeOrbs) > 0
         THEN IF S.gapAccelActive
              THEN [S EXCEPT !.gapAccelActive = FALSE]
              ELSE S
    ELSE IF S.nextTripIndex >= Len(S.trips) THEN S
    ELSE LET nextTrip    == S.trips[S.nextTripIndex + 1]
             gapDuration == nextTrip.startTime - S.simulationTime
         IN  IF gapDuration < 0
             THEN handleGapAcceleration(S, (SecondsPerDay - S.simulationTime)
                                               + nextTrip.startTime, TRUE)
             ELSE handleGapAcceleration(S, gapDuration, FALSE)

\* updateGapAcceleration(dt); due: at least gapCheckInterval of real time has
\* passed since the last check (performance.now() is an input of the run)
updateGapAcceleration(S, due) ==
    IF ~S.playing THEN S
    ELSE IF ~due THEN S
    ELSE IF Len(S.activeOrbs) > 0
         THEN IF S.gapAccelActive
              THEN [S EXCEPT !.gapAccelActive = FALSE, !.speed = S.userSpeed]
              ELSE S
    ELSE IF S.nextTripIndex >= Len(S.trips) THEN S
    ELSE LET nextTrip    == S.trips[S.nextTripIndex + 1]
             gapDuration == nextTrip.startTime - S.simulationTime
         IN  IF gapDuration < 0
             THEN handleGapAcceleration(S, (SecondsPerDay - S.simulationTime)
                                               + nextTrip.startTime, TRUE)
             ELSE handleGapAcceleration(S, gapDuration, FALSE)

\* update(): removal of the fading trails whose fade has run out; expired: the
\* trips whose trail began fading at least fadeDuration of real time ago
FadeTrails(S, expired) ==
    [S EXCEPT !.activeTrails =
        SelectSeq(@, LAMBDA tr : ~(tr.fading /\ tr.trip \in expired))]

FadingTrips(trails) == {trails[n].trip : n \in {m \in 1..Len(trails) : trails[m].fading}}

\* remaining = 1 - progress < 0.05 at clock c, for a trip still under way
NearEnd(trip, c) ==
    /\ c < trip.endTime
    /\ (trip.endTime - c) * 20 < trip.endTime - trip.startTime

\* a faulty finish trigger: the spawn phase is not waited for
StartFinishEarly(S, settled) ==
    [S EXCEPT !.pool = [o \in 1..Len(S.pool) |->
        IF /\ \E k \in 1..Len(S.activeOrbs) : S.activeOrbs[k] = o
           /\ S.pool[o].trip # 0
           /\ ~S.pool[o].finishStarted
        THEN [S.pool[o] EXCEPT !.finishStarted = TRUE]
        ELSE S.pool[o]]]

\* update(): the finish trigger of the sweep over activeOrbs, for the orbs the sweep
\* keeps: finishStarted is set once the spawn phase is over (tStart >= 1) and
\* remaining < 0.05. settled: the orbs whose spawn began at least startDuration of
\* real time ago
StartFinish(S, settled) ==
    [S EXCEPT !.pool = [o \in 1..Len(S.pool) |->
        IF /\ \E k \in 1..Len(S.activeOrbs) : S.activeOrbs[k] = o
           /\ S.pool[o].trip # 0
           /\ o \in settled
           /\ ~S.pool[o].finishStarted
           /\ NearEnd(S.trips[S.pool[o].trip], S.simulationTime)
        THEN [S.pool[o] EXCEPT !.finishStarted = TRUE]
        ELSE S.pool[o]]]

\* update(): what follows the activation sweep, unless the sweep returned
AfterSweep(S, due, expired, settled) ==
    IF S.ret THEN S
    ELSE FadeTrails(updateGapAcceleration(
                        StartFinish(AdvanceActive(S, Len(S.activeOrbs)), settled), due),
                    expired)

\* update(dt, camera) as a function of the scheduler record
update(S, dt, due, expired, settled) ==
    AfterSweep(ActivationSweep(AdvanceClock(S, dt)), due, expired, settled)

\* resetTo(): the orb of an in-flight trip is pushed onto activeOrbs
Rebind(S, i, o) == [S EXCEPT !.activeOrbs = Append(@, o), !.boundNow = @ \cup {i}]

\* a faulty resetTo(): the trips in flight are counted but not re-bound
BindInFlightSkipped(S, inFlight, n) == S

\* resetTo(): the loop that re-binds the trips in flight, in list order
RECURSIVE BindInFlight(_, _, _)
BindInFlight(S, inFlight, n) ==
    IF n > Len(inFlight) THEN S
    ELSE LET i == inFlight[n]
             o == PoolFind(S.pool)
         IN  IF o = 0 THEN NoteAcquire(S, o, S)
             ELSE BindInFlight(
                      NoteAcquire(S, o,
                          Rebind(createTrailForTrip(BindOrb(prepareTripPath(S, i), i, o), i),
                                 i, o)),
                      inFlight, n + 1)

RECURSIVE ReleaseAll(_, _, _)
ReleaseAll(p, orbs, n) ==
    IF n > Len(orbs) THEN p
    ELSE ReleaseAll([p EXCEPT ![orbs[n]] = deactivateOrb(p[orbs[n]])], orbs, n + 1)

IndexSeq(s) == [n \in 1..Len(s) |-> n]

\* resetTo(timeSec) as a function of the scheduler record
resetTo(S, t0) ==
    LET timeSec == IF Len(S.trips) > 0 /\ t0 < S.trips[1].startTime
                   THEN S.trips[1].startTime ELSE t0
        N  == Len(S.trips)
        tr == [i \in 1..N |-> [S.trips[i] EXCEPT
                                  !.started = S.trips[i].startTime < timeSec,
                                  !.completed = S.trips[i].endTime <= timeSec]]
        first == IF \E i \in 1..N : S.trips[i].startTime >= timeSec
                 THEN (CHOOSE i \in 1..N : /\ S.trips[i].startTime >= timeSec
                                           /\ \A j \in 1..(i - 1) :
                                                 S.trips[j].startTime < timeSec) - 1
                 ELSE N
        inFlight == SelectSeq(IndexSeq(S.trips),
                              LAMBDA i : S.trips[i].startTime < timeSec
                                         /\ S.trips[i].endTime > timeSec)
        S1 == [S EXCEPT !.simulationTime = timeSec,
                        !.gapAccelActive = FALSE,
                        !.speed = S.userSpeed,
                        !.trips = tr,
                        !.startedCount = Cardinality({i \in 1..N : tr[i].started}),
                        !.completedCount = Cardinality({i \in 1..N : tr[i].completed}),
                        !.pool = ReleaseAll(S.pool, S.activeOrbs, 1),
                        !.activeOrbs = << >>,
                        !.activeTrails = << >>,
                        !.nextTripIndex = first]
    IN  BindInFlight(S1, inFlight, 1)

-----------------------------------------------------------------------------
(* Inputs *)

\* road polylines: all pairwise distances between their points are whole numbers;
\* (0,0),(-5,0) share a cell, and so do (9,0),(5,0)
Roads == << << Pt(0, 0), Pt(9, 0), Pt(16, 0) >>,
            << Pt(0, 0), Pt(0, 12), Pt(16, 0) >>,
            << Pt(-5, 0), Pt(16, 0) >>,
            << Pt(5, 0), Pt(9, 0) >>,
            << Pt(0, 12), Pt(16, 0) >> >>

PolylineSets == UNION {[1..n -> {Roads[r] : r \in 1..Len(Roads)}] : n \in 0..MaxPolylines}

\* query points: (10,0) and (13,0) lie in one cell of the PREC grid
QueryPts == {Pt(2, 0), Pt(10, 0), Pt(13, 0)}
QuerySeq == << Pt(13, 0), Pt(10, 0), Pt(2, 0) >>

StartTimes == {0, 150}
Durations == {75, 300}
DtSet == {5 * k : k \in 0..MaxDtSteps}
ResetTimes == {0, 150, 225, 525}
UserSpeeds == {30, 60}

\* trip i of a list: pickup and dropoff positions by index
TripAt(i, s, e) == Trip(s, e, QuerySeq[((i - 1) % 3) + 1], QuerySeq[(i % 3) + 1])

\* the trip lists a run may be given: sorted by startTime, endTime > startTime
TripLists ==
    {[i \in 1..Len(w) |-> TripAt(i, w[i][1], w[i][1] + w[i][2])] :
        w \in {v \in UNION {[1..n -> StartTimes \X Durations] : n \in 0..MaxTrips} :
                  \A k \in 1..(Len(v) - 1) : v[k][1] <= v[k + 1][1]}}

\* the trips of the router runs: the first two share a cache key, the third starts
\* and ends at one point
RouterTrips == << Trip(0, 300, Pt(13, 0), Pt(2, 0)),
                  Trip(0, 300, Pt(10, 0), Pt(2, 0)),
                  Trip(150, 450, Pt(2, 0), Pt(2, 0)) >>

\* the arguments of route(): pairs of points, and a missing start or end
RouteInputs == (QueryPts \X QueryPts) \cup {<< NoPoint, Pt(2, 0) >>, << Pt(2, 0), NoPoint >>}

SimRouter == buildRoadRouter(<< Roads[1] >>)

-----------------------------------------------------------------------------
(* State machine *)

NoCall == [op |-> "new", exhausted |-> FALSE, autoPaused |-> FALSE, acq |-> NoAcq,
           jumped |-> {}, settled |-> {}, t |-> 0, prog |-> << 0, 1 >>, pos |-> NoPoint,
           seg |-> 0, draw |-> 0, prev |-> << >>,
           start |-> NoPoint,
           end |-> NoPoint, result |-> NullPath, hit |-> FALSE, trip |-> 0]

\* bound: the trips bound to an orb since the last resetTo; inWindow: the trips that
\* were pending while an update() saw the clock inside their window; calls: router
\* operations so far; capacity: the size given to createPool; run: "off" in the
\* runs that do not follow it, else "played" while no resetTo was called, "scrubbed"
\* after a resetTo, "resynced" after the update(0) that follows a resetTo, "mixed"
\* after any later update
NoHist == [bound |-> {}, inWindow |-> {}, calls |-> 0, capacity |-> 0, run |-> "off"]

\* new Simulation(scene, pool, trips) on the map M; run: how the run is followed
ConstructedFollowed(M, tl, size, run) ==
    /\ mapGroup = M
    /\ router = M.roadRouter
    /\ trips = tl
    /\ pool = createPool(size)
    /\ activeOrbs = << >>
    /\ activeTrails = << >>
    /\ simulationTime = IF Len(tl) > 0 THEN tl[1].startTime ELSE 0
    /\ playing = TRUE
    /\ speed = InitialSpeed
    /\ userSpeed = InitialSpeed
    /\ gapAccelActive = FALSE
    /\ startedCount = 0
    /\ completedCount = 0
    /\ nextTripIndex = 0
    /\ lastCall = NoCall
    /\ hist = [NoHist EXCEPT !.capacity = size, !.run = run]

\* new Simulation(scene, pool, trips) on the map M
ConstructedOn(M, tl, size) == ConstructedFollowed(M, tl, size, "off")

\* new Simulation(scene, pool, trips) on a map whose router is r
Constructed(r, tl, size) == ConstructedOn([typeData |-> << >>, roadRouter |-> r], tl, size)

Init == \E tl \in TripLists, size \in 1..MaxPoolSize :
            Constructed(SimRouter, tl, size)

\* the trips still at or after the cursor whose window holds the clock
PendingInWindow(S) ==
    {i \in (S.nextTripIndex + 1)..Len(S.trips) :
        S.trips[i].startTime <= S.simulationTime /\ S.simulationTime < S.trips[i].endTime}

\* the trips the cursor of S passed, since the current state, with their endTime
\* already elapsed on the clock of S
JumpedOver(S) ==
    {i \in (nextTripIndex + 1)..S.nextTripIndex : trips[i].endTime <= S.simulationTime}

\* the state after simulation.update(dt, camera) returned the record S
Updated(S, dt, settled) ==
    /\ Len(S.trips) = 0 => S.simulationTime <= MaxClock
    /\ Commit(S)
    /\ lastCall' = [NoCall EXCEPT !.op = "update", !.exhausted = S.ret, !.acq = S.acq,
                                  !.autoPaused = playing /\ ~S.playing,
                                  !.jumped = JumpedOver(S), !.settled = settled]
    /\ hist' = [hist EXCEPT !.run = IF @ \in {"off", "played"} THEN @
                                     ELSE IF @ = "scrubbed" /\ dt = 0 THEN "resynced"
                                     ELSE "mixed",
                            !.bound = @ \cup S.boundNow,
                            !.inWindow = @ \cup PendingInWindow(AdvanceClock(Sim, dt))]

\* simulation.update(dt, camera), called by animate()
Update(dt, due, expired, settled) ==
    Updated(update(Sim, dt, due, expired, settled), dt, settled)

\* the active orbs for which it matters to a frame of dt whether their spawn phase
\* is over: those near the end of their trip with the finish not yet started
FinishCandidates(dt) ==
    {o \in 1..Len(pool) :
        /\ \E k \in 1..Len(activeOrbs) : activeOrbs[k] = o
        /\ pool[o].trip # 0
        /\ ~pool[o].finishStarted
        /\ NearEnd(trips[pool[o].trip], AdvanceClock(Sim, dt).simulationTime)}

\* the state after simulation.resetTo(t) returned the record S
Reset(S, t) ==
    /\ Commit(S)
    /\ lastCall' = [NoCall EXCEPT !.op = "resetTo", !.acq = S.acq, !.t = t]
    /\ hist' = [hist EXCEPT !.bound = S.boundNow, !.inWindow = {},
                            !.run = IF @ = "off" THEN "off" ELSE "scrubbed"]

\* simulation.resetTo(t), called by the timeline slider
ResetTo(t) == Reset(resetTo(Sim, t), t)

\* the play/pause button
TogglePlay ==
    /\ playing' = ~playing
    /\ lastCall' = [NoCall EXCEPT !.op = "togglePlay"]
    /\ UNCHANGED << router, trips, pool, activeOrbs, activeTrails, simulationTime,
                    speed, userSpeed, gapAccelActive, startedCount, completedCount,
                    nextTripIndex, mapGroup, hist >>

\* a faulty speed selector: the nominal speed is stored, the speed in use is kept
SetUserSpeedOnly(v) ==
    /\ userSpeed' = v
    /\ lastCall' = [NoCall EXCEPT !.op = "setUserSpeed"]
    /\ UNCHANGED << router, trips, pool, activeOrbs, activeTrails, simulationTime,
                    playing, speed, gapAccelActive, startedCount, completedCount,
                    nextTripIndex, mapGroup, hist >>

\* the speed selector
SetUserSpeed(v) ==
    /\ userSpeed' = v
    /\ speed' = IF ~gapAccelActive THEN v ELSE speed
    /\ lastCall' = [NoCall EXCEPT !.op = "setUserSpeed"]
    /\ UNCHANGED << router, trips, pool, activeOrbs, activeTrails, simulationTime,
                    playing, gapAccelActive, startedCount, completedCount,
                    nextTripIndex, mapGroup, hist >>

Next ==
    \/ \E dt \in DtSet, due \in BOOLEAN, expired \in SUBSET FadingTrips(activeTrails) :
           \E settled \in SUBSET FinishCandidates(dt) : Update(dt, due, expired, settled)
    \/ \E t \in ResetTimes : ResetTo(t)
    \/ TogglePlay

Spec == Init /\ [][Next]_vars

-----------------------------------------------------------------------------
(* Scrubbing runs: playing and the timeline slider, with the pool init() allocates *)

\* trip lists of the scrubbing runs: a trip that has ended, one under way and one
\* that starts at a slider position; an idle gap; a last trip that ends before an
\* earlier one; a single trip
ScrubTripLists ==
    { << TripAt(1, 0, 75), TripAt(2, 0, 300), TripAt(3, 150, 450) >>,
      << TripAt(1, 0, 75), TripAt(2, 150, 225), TripAt(3, 225, 525) >>,
      << TripAt(1, 0, 300), TripAt(2, 150, 225) >>,
      << TripAt(1, 150, 450) >> }

\* init(): createPool(trips.length), new Simulation
InitScrub ==
    \E tl \in ScrubTripLists :
        ConstructedFollowed([typeData |-> << >>, roadRouter |-> SimRouter],
                            tl, Len(tl), "played")

NextScrub ==
    \/ \E dt \in DtSet, due \in BOOLEAN, expired \in SUBSET FadingTrips(activeTrails) :
           \E settled \in SUBSET FinishCandidates(dt) : Update(dt, due, expired, settled)
    \/ \E t \in ResetTimes : ResetTo(t)
    \/ TogglePlay

SpecScrub == InitScrub /\ [][NextScrub]_vars

-----------------------------------------------------------------------------
(* Ingestion: loadTrips() and the continuous timeline of init() *)

\* timestamps are whole seconds, as in the tpep_*_datetime columns
DaySec == 86400
InvalidDate == -1

\* dayStart(date): the midnight before the timestamp
dayStart(ts) == ts - (ts % DaySec)

\* the sequence with x put behind every element whose field f is not greater
RECURSIVE InsertBy(_, _, _, _)
InsertBy(sorted, x, f, k) ==
    IF k > Len(sorted) THEN Append(sorted, x)
    ELSE IF x[f] < sorted[k][f]
         THEN SubSeq(sorted, 1, k - 1) \o << x >> \o SubSeq(sorted, k, Len(sorted))
         ELSE InsertBy(sorted, x, f, k + 1)

\* Array.prototype.sort((a, b) => a[f] - b[f]): stable, ascending
RECURSIVE SortBy(_, _, _, _)
SortBy(seq, f, k, acc) ==
    IF k > Len(seq) THEN acc ELSE SortBy(seq, f, k + 1, InsertBy(acc, seq[k], f, 1))

\* loadTrips(): the loop over the parsed rows
RECURSIVE ParseRows(_, _, _)
ParseRows(rows, k, acc) ==
    IF k > Len(rows) THEN acc
    ELSE LET pickupTS == rows[k].pickup
             dropoffTS == rows[k].dropoff
             pickupSec == pickupTS - dayStart(pickupTS)
             dropoffSec == dropoffTS - dayStart(pickupTS)
         IN  IF pickupTS = InvalidDate \/ dropoffTS = InvalidDate THEN ParseRows(rows, k + 1, acc)
             ELSE IF dropoffSec <= pickupSec THEN ParseRows(rows, k + 1, acc)
             ELSE ParseRows(rows, k + 1,
                            Append(acc, [startTime |-> pickupSec, endTime |-> dropoffSec,
                                         pickupTimestamp |-> pickupTS, row |-> k]))

\* loadTrips(url)
loadTrips(rows) == SortBy(ParseRows(rows, 1, << >>), "pickupTimestamp", 1, << >>)

\* a faulty init(): the seconds of the day are kept as loadTrips() left them
normalizeTimelineKeepsDayTime(loaded) == loaded

\* init(): per-day seconds to seconds from the first trip's midnight, then the sort
normalizeTimeline(loaded) ==
    IF Len(loaded) = 0 THEN loaded
    ELSE LET baseMs == dayStart(loaded[1].pickupTimestamp) IN
         SortBy([k \in 1..Len(loaded) |->
                    [loaded[k] EXCEPT !.startTime = loaded[k].pickupTimestamp - baseMs,
                                      !.endTime = (loaded[k].pickupTimestamp - baseMs)
                                                  + (loaded[k].endTime - loaded[k].startTime)]],
                "startTime", 1, << >>)

\* the trips init() hands to new Simulation(): positions by the row's number
IngestedTrips(rows) ==
    LET norm == normalizeTimeline(loadTrips(rows))
    IN  [i \in 1..Len(norm) |-> TripAt(norm[i].row, norm[i].startTime, norm[i].endTime)]

\* rows of the CSV: pickups on two days, late on the first and early on the second;
\* dropoffs before, at and after the pickup, over midnight, and unparsable dates
PickupTimes == {DaySec + 300, DaySec + 86000, 2 * DaySec + 100, InvalidDate}
DropoffTimes == {DaySec + 300, 2 * DaySec + 100, 2 * DaySec + 400, InvalidDate}
RowLists ==
    UNION {[1..n -> [pickup : PickupTimes, dropoff : DropoffTimes]] : n \in 0..MaxTrips}

\* positions of the timeline slider in the ingestion runs
IngestSeekTimes == {DaySec + 300, DaySec + 86200}

\* init(): trips loaded and normalized, createPool(trips.length), new Simulation
InitIngest ==
    \E rows \in RowLists :
        Constructed(SimRouter, IngestedTrips(rows), Len(IngestedTrips(rows)))

NextIngest ==
    \/ \E t \in IngestSeekTimes : ResetTo(t)
    \/ TogglePlay

SpecIngest == InitIngest /\ [][NextIngest]_vars

-----------------------------------------------------------------------------
(* Runs of short frames over long trips: the spawn, idle and finish effects *)

\* two long trips that overlap, and between them a short one that a frame of two
\* seconds jumps over
FinishTrips == << TripAt(1, 0, 660), TripAt(2, 30, 60), TripAt(3, 60, 720) >>

\* frames of the finish runs, in real seconds
FinishDtSet == {1, 2}

InitFinish == \E size \in 1..MaxPoolSize : Constructed(SimRouter, FinishTrips, size)

NextFinish ==
    \/ \E dt \in FinishDtSet, due \in BOOLEAN, expired \in SUBSET FadingTrips(activeTrails) :
           \E settled \in SUBSET FinishCandidates(dt) : Update(dt, due, expired, settled)
    \/ TogglePlay

SpecFinish == InitFinish /\ [][NextFinish]_vars

-----------------------------------------------------------------------------
(* Runs over trip lists with idle gaps: adaptive gap acceleration *)

\* a short first trip, then an idle gap before the second trip: 225 s after the first
\* tick (adaptive speed), 1350 s (moderate speed), 11850 s (extreme speed); the last
\* list has two trips in flight together before the gap
GapTripLists ==
    { << TripAt(1, 0, 75), TripAt(2, 375, 675) >>,
      << TripAt(1, 0, 75), TripAt(2, 1500, 4500) >>,
      << TripAt(1, 0, 75), TripAt(2, 12000, 15000) >>,
      << TripAt(1, 0, 75), TripAt(2, 0, 150), TripAt(3, 1500, 1800) >> }

GapResetTimes == {0, 300}

\* frames of the gap runs, in real seconds
GapDtSet == {5, 10}

InitGap == \E tl \in GapTripLists : Constructed(SimRouter, tl, Len(tl))

NextGap ==
    \/ \E dt \in GapDtSet, due \in BOOLEAN, expired \in SUBSET FadingTrips(activeTrails) :
           \E settled \in SUBSET FinishCandidates(dt) : Update(dt, due, expired, settled)
    \/ \E t \in GapResetTimes : ResetTo(t)
    \/ TogglePlay
    \/ \E v \in UserSpeeds : SetUserSpeed(v)

SpecGap == InitGap /\ [][NextGap]_vars

\* uninterrupted playback: animate() calls update() on every frame with dt > 0, and
\* neither the timeline slider nor the play button is used
InitLive == \E tl \in GapTripLists, size \in 1..MaxPoolSize :
                Constructed(SimRouter, tl, size)

Tick == \E dt \in GapDtSet, due \in BOOLEAN, expired \in SUBSET FadingTrips(activeTrails) :
            \E settled \in SUBSET FinishCandidates(dt) : Update(dt, due, expired, settled)

\* requestAnimationFrame keeps scheduling animate(): as long as playback is on, frames
\* keep being run. This is weak fairness of Tick, with the enabledness of a
\* state-changing Tick replaced by the weaker condition playing (FrameAdvancesClock
\* below checks that a frame run while playing does change the state).
FramesKeepRunning == []<>(~playing) \/ []<><<lastCall'.op = "update">>_vars

SpecLive == InitLive /\ [][Tick]_vars /\ FramesKeepRunning

-----------------------------------------------------------------------------
(* Router runs: queries and lazy route resolution on one graph *)

InitRouter ==
    \E r \in {NoRouter} \cup {buildRoadRouter(pl) : pl \in PolylineSets} :
        Constructed(r, RouterTrips, Len(RouterTrips))

\* router.route(start, end)
Route(start, end) ==
    /\ router.present
    /\ hist.calls < MaxRouteCalls
    /\ LET q == route(router, start, end) IN
       /\ router' = q.router
       /\ lastCall' = [NoCall EXCEPT !.op = "route", !.start = start, !.end = end,
                                     !.result = q.result,
                                     !.hit = (start # NoPoint /\ end # NoPoint
                                              /\ CacheKey(start, end) \in DOMAIN router.pathCache)]
    /\ hist' = [hist EXCEPT !.calls = @ + 1]
    /\ UNCHANGED << simVars, mapGroup >>

\* simulation.prepareTripPath(trip)
PrepareTripPath(i) ==
    /\ hist.calls < MaxRouteCalls
    /\ LET S == prepareTripPath(Sim, i) IN
       /\ Commit(S)
       /\ lastCall' = [NoCall EXCEPT !.op = "prepareTripPath", !.trip = i,
                                     !.hit = (trips[i].path # NullPath)]
    /\ hist' = [hist EXCEPT !.calls = @ + 1]

NextRouter ==
    \/ \E q \in RouteInputs : Route(q[1], q[2])
    \/ \E i \in 1..Len(trips) : PrepareTripPath(i)

SpecRouter == InitRouter /\ [][NextRouter]_vars

\* progress values t = tn / td handed to positionOrb
ProgressSet == {<< 0, 1 >>, << 1, 2 >>, << 1, 1 >>}

\* the state after positionOrb(orb, trip, t) on trips[i], S being the scheduler
\* record after its prepareTripPath(trip)
Positioned(S, i, tn, td) ==
    /\ Commit(S)
    /\ lastCall' = [NoCall EXCEPT !.op = "positionOrb", !.trip = i,
                                  !.prog = << tn, td >>,
                                  !.pos = positionOrb(S.trips[i], tn, td)]
    /\ hist' = [hist EXCEPT !.calls = @ + 1]

\* simulation.positionOrb(orb, trip, t)
PositionOrb(i, tn, td) ==
    /\ hist.calls < MaxRouteCalls
    /\ Positioned(prepareTripPath(Sim, i), i, tn, td)

\* clocks at which update() positions the orb of an active trip
PositionClocks == {0, 75, 150, 225, 375}

\* update(): the orb of the active trip trips[i] is positioned at clock c, with
\* progress = (c - startTime) / (endTime - startTime) < 1 clamped to [0, 1]
PositionActive(i, c) ==
    /\ hist.calls < MaxRouteCalls
    /\ trips[i].startTime <= c /\ c < trips[i].endTime
    /\ Positioned([prepareTripPath(Sim, i) EXCEPT !.simulationTime = c], i,
                  c - trips[i].startTime, trips[i].endTime - trips[i].startTime)

NextPosition ==
    \/ \E i \in 1..Len(trips), t \in ProgressSet : PositionOrb(i, t[1], t[2])
    \/ \E i \in 1..Len(trips), c \in PositionClocks : PositionActive(i, c)

SpecPosition == InitRouter /\ [][NextPosition]_vars

-----------------------------------------------------------------------------
(* Trail runs: an active trip's orb and trail are moved frame after frame *)

TrailRouters == {NoRouter, buildRoadRouter(<< Roads[1] >>), buildRoadRouter(<< Roads[2] >>),
                 buildRoadRouter(<< Roads[1], Roads[2] >>)}

InitTrail == \E r \in TrailRouters : Constructed(r, RouterTrips, Len(RouterTrips))

HasTrail(i) == \E n \in 1..Len(activeTrails) : activeTrails[n].trip = i

\* createTrailForTrip(trip, color), called when the trip is bound to an orb
CreateTrail(i) ==
    /\ ~HasTrail(i)
    /\ Commit(createTrailForTrip(Sim, i))
    /\ lastCall' = [NoCall EXCEPT !.op = "createTrailForTrip", !.trip = i]
    /\ UNCHANGED hist

\* the state after update() moved the orb and the trail of trips[i] at clock c; S is
\* the scheduler record after positionOrb's prepareTripPath. prev: what the previous
\* such move recorded
Moved(S, i, c, tn, td) ==
    /\ Commit(S)
    /\ lastCall' = [NoCall EXCEPT
           !.op = "moveActive", !.trip = i, !.t = c, !.prog = << tn, td >>,
           !.pos = positionOrb(S.trips[i], tn, td),
           !.seg = SegmentIndex(S.trips[i], 1, 0, tn, td),
           !.draw = updateTrailProgress(S.trips[i], tn, td),
           !.prev = IF lastCall.op = "moveActive"
                    THEN << [trip |-> lastCall.trip, prog |-> lastCall.prog,
                             seg |-> lastCall.seg, draw |-> lastCall.draw] >>
                    ELSE << >>]
    /\ UNCHANGED hist

\* update(): the orb of the active trip trips[i] is positioned and its trail updated at
\* clock c, with progress = (c - startTime) / (endTime - startTime) < 1
MoveActive(i, c) ==
    /\ HasTrail(i)
    /\ trips[i].startTime <= c /\ c < trips[i].endTime
    /\ Moved([prepareTripPath(Sim, i) EXCEPT !.simulationTime = c], i, c,
             c - trips[i].startTime, trips[i].endTime - trips[i].startTime)

NextTrail ==
    \/ \E i \in 1..Len(trips) : CreateTrail(i)
    \/ \E i \in 1..Len(trips), c \in PositionClocks : MoveActive(i, c)

SpecTrail == InitTrail /\ [][NextTrail]_vars

-----------------------------------------------------------------------------
(* Graph runs: routers built from crossing polylines *)

\* two streets through (0, 0), two through (-5, 0), which lies in the cell of (0, 0),
\* and two short streets that end at (0, 0); every distance between two of their
\* points that can become an edge is a whole number
GraphLines == { << Pt(-21, 0), Pt(0, 0), Pt(16, 0) >>,
                << Pt(-21, 0), Pt(-5, 0), Pt(16, 0) >>,
                << Pt(0, -12), Pt(0, 0), Pt(0, 12) >>,
                << Pt(0, -12), Pt(-5, 0), Pt(0, 12) >>,
                << Pt(0, 0), Pt(16, 0) >>,
                << Pt(0, 0), Pt(0, 12) >> }

GraphInputs == {<< p >> : p \in GraphLines} \cup {<< p, q >> : p, q \in GraphLines}

\* loadNYCMap() over one road type with the polylines pl, then new Simulation
InitGraph ==
    \E pl \in GraphInputs :
        ConstructedOn([typeData |-> << [polylines |-> pl, enabled |-> TRUE] >>,
                       roadRouter |-> rebuildRouter(<< [polylines |-> pl, enabled |-> TRUE] >>)],
                      RouterTrips, Len(RouterTrips))

NextGraph == \E q \in RouteInputs : Route(q[1], q[2])

SpecGraph == InitGraph /\ [][NextGraph]_vars

-----------------------------------------------------------------------------
(* Road filter runs: road types switched off and on during playback *)

\* two road types: the street along the x axis, and a detour over (0, 12)
RoadTypes == << [polylines |-> << Roads[1] >>, enabled |-> TRUE],
                [polylines |-> << Roads[2] >>, enabled |-> TRUE] >>

ToggleTrips == << Trip(0, 300, Pt(13, 0), Pt(2, 0)),
                  Trip(150, 450, Pt(13, 0), Pt(2, 0)),
                  Trip(300, 600, Pt(10, 0), Pt(2, 0)) >>

\* loadNYCMap(): every road type enabled, then the initial rebuildRouter()
InitToggle ==
    ConstructedOn([typeData |-> RoadTypes, roadRouter |-> rebuildRouter(RoadTypes)],
                  ToggleTrips, Len(ToggleTrips))

\* the road filter handler: the cached route of every trip not yet started is deleted
InvalidatePaths(tr) ==
    [i \in 1..Len(tr) |->
        IF ~tr[i].started
        THEN [tr[i] EXCEPT !.path = NullPath, !.segLengths = << >>, !.totalLength = 0]
        ELSE tr[i]]

\* the change handler of the checkbox of road type `type`, now showing `checked`
RoadFilterChange(type, checked) ==
    /\ mapGroup' = toggleRoadType(mapGroup, type, checked)
    /\ trips' = InvalidatePaths(trips)
    /\ lastCall' = [NoCall EXCEPT !.op = "toggleRoadType", !.trip = type]
    /\ UNCHANGED << router, pool, activeOrbs, activeTrails, simulationTime, playing,
                    speed, userSpeed, gapAccelActive, startedCount, completedCount,
                    nextTripIndex, hist >>

NextToggle ==
    \/ \E type \in 1..Len(mapGroup.typeData) :
           RoadFilterChange(type, ~mapGroup.typeData[type].enabled)
    \/ \E dt \in {0, 5}, expired \in SUBSET FadingTrips(activeTrails) :
           \E settled \in SUBSET FinishCandidates(dt) : Update(dt, FALSE, expired, settled)
    \/ \E i \in 1..Len(trips) : PrepareTripPath(i)

SpecToggle == InitToggle /\ [][NextToggle]_vars

-----------------------------------------------------------------------------
(* Reference definitions *)

Nodes(G) == DOMAIN G.xz

\* more than the weight of any path without a repeated edge
Unreached(G) ==
    LET tot[n \in 0..Len(G.order)] ==
            IF n = 0 THEN 1
            ELSE tot[n - 1] + SumSeq([j \in 1..Len(G.edges[G.order[n]]) |->
                                         G.edges[G.order[n]][j].w],
                                     Len(G.edges[G.order[n]]))
    IN  tot[Len(G.order)]

MinOf(S) == CHOOSE m \in S : \A n \in S : m <= n

\* least total weight of a walk of at most k edges from s to each node
RECURSIVE RefDist(_, _, _)
RefDist(G, s, k) ==
    IF k = 0 THEN [v \in Nodes(G) |-> IF v = s THEN 0 ELSE Unreached(G)]
    ELSE LET d == RefDist(G, s, k - 1) IN
         [v \in Nodes(G) |->
             MinOf({d[v]} \cup {Min(Unreached(G), d[G.edges[v][j].to] + G.edges[v][j].w) :
                                   j \in 1..Len(G.edges[v])})]

ShortestDist(G, s, t) == RefDist(G, s, Cardinality(Nodes(G)))[t]

Reachable(G, s, t) == ShortestDist(G, s, t) < Unreached(G)

PathWeight(path) ==
    SumSeq([k \in 1..(Len(path) - 1) |-> distanceTo(path[k], path[k + 1])], Len(path) - 1)

ActiveSet == {i \in 1..Len(pool) : pool[i].active}

InFlightAt(t) == {i \in 1..Len(trips) : trips[i].startTime < t /\ t < trips[i].endTime}

\* the last call was route() with two points on a graph that has nodes
RouteAnswered ==
    /\ lastCall.op = "route"
    /\ lastCall.start # NoPoint
    /\ lastCall.end # NoPoint
    /\ Len(router.graph.order) > 0

LastS == nearestNode(router.graph, lastCall.start)
LastT == nearestNode(router.graph, lastCall.end)

-----------------------------------------------------------------------------
(* Claims *)

\* C1: pool backpressure never loses a trip: a trip that was pending while an
\* update() saw the clock inside its window [startTime, endTime) is never left
\* behind the activation cursor without having been bound to an entity.
C1_NoTripSkipped ==
    \A i \in hist.inWindow : i <= nextTripIndex => i \in hist.bound

\* C2: after any update(), no active entity is bound to a trip whose
\* endTime <= simulationTime; such trips are marked completed.
C2_FinishedTripsRetired ==
    lastCall.op = "update" =>
        \A k \in 1..Len(activeOrbs) :
            trips[pool[activeOrbs[k]].trip].endTime > simulationTime

\* C3: the pool keeps the capacity fixed at createPool, active-count + free-count
\* equals it, and an acquire attempt on a fully active pool yields none and changes
\* no pool entry.
C3_PoolInvariant ==
    /\ Len(pool) = hist.capacity
    /\ Cardinality(ActiveSet) + Cardinality({i \in 1..Len(pool) : ~pool[i].active})
           = hist.capacity
    /\ lastCall.acq.tried => (lastCall.acq.got = 0 /\ lastCall.acq.after = lastCall.acq.before)

C3_Witness ==
    /\ lastCall.op = "update"
    /\ lastCall.acq.tried
    /\ Cardinality(ActiveSet) = hist.capacity

\* C4: activeOrbs lists, without duplicates, exactly the pool entries whose active
\* flag is set; every active entity is bound to one trip, every inactive entity to
\* none, and no trip is bound to two active entities.
C4_NoOrphans ==
    /\ \A k, m \in 1..Len(activeOrbs) : activeOrbs[k] = activeOrbs[m] => k = m
    /\ {activeOrbs[k] : k \in 1..Len(activeOrbs)} = ActiveSet
    /\ \A i \in 1..Len(pool) :
           IF pool[i].active THEN pool[i].trip \in 1..Len(trips) ELSE pool[i].trip = 0
    /\ \A i, j \in ActiveSet : pool[i].trip = pool[j].trip => i = j

C4_Witness ==
    /\ lastCall.op = "resetTo"
    /\ Len(activeOrbs) = 2
    /\ completedCount > 0

\* C5: after resetTo(t), with t raised to the first trip's startTime if smaller,
\* simulationTime = t, the prior trails are gone, nextTripIndex is the least index
\* whose startTime >= t (trips.length if none), and the active entities are bound
\* one-to-one to exactly the trips with startTime < t < endTime.
C5_ResetResync ==
    lastCall.op = "resetTo" =>
        /\ simulationTime = IF Len(trips) > 0 /\ lastCall.t < trips[1].startTime
                            THEN trips[1].startTime ELSE lastCall.t
        /\ nextTripIndex \in 0..Len(trips)
        /\ \A i \in 1..Len(trips) : trips[i].startTime >= simulationTime => nextTripIndex < i
        /\ nextTripIndex < Len(trips) => trips[nextTripIndex + 1].startTime >= simulationTime
        /\ \A n \in 1..Len(activeTrails) : ~activeTrails[n].fading
        /\ Len(activeOrbs) = Cardinality(InFlightAt(simulationTime))
        /\ {pool[i].trip : i \in ActiveSet} = InFlightAt(simulationTime)

\* C6: route(start, end) on a non-empty graph returns a shortest path: when the
\* snapped end node is reachable from the snapped start node, the summed edge
\* weights along the returned points equal the least total weight of a path
\* between the two nodes.
C6_RouteIsShortest ==
    (RouteAnswered /\ Reachable(router.graph, LastS, LastT)) =>
        /\ lastCall.result # NullPath
        /\ PathWeight(lastCall.result) = ShortestDist(router.graph, LastS, LastT)

\* the search itself, on a cache miss, returns a path of least total weight
SearchIsShortest ==
    (RouteAnswered /\ ~lastCall.hit /\ Reachable(router.graph, LastS, LastT)) =>
        /\ lastCall.result # NullPath
        /\ PathWeight(lastCall.result) = ShortestDist(router.graph, LastS, LastT)

\* C7: a cache hit returns exactly what an uncached search between
\* nearestNode(start) and nearestNode(end) of the current query would return.
C7_CacheHitMatchesSearch ==
    (RouteAnswered /\ lastCall.hit) =>
        lastCall.result = SearchPath(router.graph, LastS, LastT)

\* C8: two calls of route() whose endpoints snap to the same (start, end) nodes
\* return equal point sequences, whatever else was queried on the router; stated
\* for a call and the call that follows it, after any earlier queries.
C8_SameSnapSamePath ==
    [][(RouteAnswered /\ RouteAnswered' /\ LastS' = LastS /\ LastT' = LastT)
           => lastCall'.result = lastCall.result]_vars

\* C9: a router built from no polylines has zero nodes and zero edges, its route()
\* returns null for every input, and prepareTripPath then gives the trip the direct
\* path [startPos, endPos]; so it does when the scheduler has no router.
C9_EmptyGraphFallback ==
    /\ buildRoadRouter(<< >>).graph = EmptyGraph
    /\ (~router.present \/ Len(router.graph.order) = 0) =>
           /\ \A k \in Nodes(router.graph) : FALSE
           /\ router.pathCache = << >>
           /\ lastCall.op = "route" => lastCall.result = NullPath
           /\ \A i \in 1..Len(trips) :
                  trips[i].path # NullPath =>
                      /\ trips[i].path = << trips[i].startPos, trips[i].endPos >>
                      /\ trips[i].segLengths =
                             << distanceTo(trips[i].startPos, trips[i].endPos) >>
                      /\ trips[i].totalLength =
                             distanceTo(trips[i].startPos, trips[i].endPos)

C9_Witness ==
    /\ router.present
    /\ Len(router.graph.order) = 0
    /\ lastCall.op = "prepareTripPath"
    /\ trips[1].path = << trips[1].startPos, trips[1].endPos >>
    /\ hist.calls >= 2

\* C10: when the snapped end node differs from and is not reachable from the
\* snapped start node, route() returns null and the cache holds null for the query.
C10_UnreachableIsNull ==
    (RouteAnswered /\ LastS # LastT /\ ~Reachable(router.graph, LastS, LastT)) =>
        /\ lastCall.result = NullPath
        /\ router.pathCache[CacheKey(lastCall.start, lastCall.end)] = NullPath

\* the endTime of the final trip of the list
FinalEnd == trips[Len(trips)].endTime

\* a step of update()
UpdateStep == lastCall'.op = "update"

C15_SpeedAtLeastNominal == speed >= userSpeed

\* C16: after any update(), if at least one entity is active then speed = userSpeed
\* and gapAccelActive is false.
C16_NoAccelWhileActive ==
    (lastCall.op = "update" /\ Len(activeOrbs) > 0) =>
        (speed = userSpeed /\ ~gapAccelActive)

\* the scheduler after a gap check that is due now
GapChecked == updateGapAcceleration(Sim, TRUE)

\* the next pending trip starts more than maxRealWaitTime real seconds ahead at
\* nominal speed
LongGapAhead ==
    /\ nextTripIndex < Len(trips)
    /\ trips[nextTripIndex + 1].startTime - simulationTime > maxRealWaitTime * userSpeed

\* C17: a gap check that runs while playing with no active entity and a long gap
\* ahead sets gapAccelActive and raises speed above userSpeed; a gap check that
\* runs while playing with an active entity leaves speed = userSpeed and
\* gapAccelActive false.
C17_GapTriggerAndRevert ==
    /\ (playing /\ Len(activeOrbs) = 0 /\ LongGapAhead) =>
           (GapChecked.gapAccelActive /\ GapChecked.speed > GapChecked.userSpeed)
    /\ (playing /\ Len(activeOrbs) > 0) =>
           (GapChecked.speed = GapChecked.userSpeed /\ ~GapChecked.gapAccelActive)

C17_Witness ==
    /\ lastCall.op = "update"
    /\ gapAccelActive
    /\ speed > userSpeed
    /\ Len(activeOrbs) = 0
    /\ LongGapAhead

\* C12: playback terminates. With a non-empty trip list, playing and every frame
\* having dt > 0, repeated update() calls with no resetTo and no play toggle reach a
\* state with playing = false and the clock at the final trip's endTime, and the
\* clock stays there from then on.
FrameAdvancesClock ==
    playing => \A dt \in GapDtSet :
                   \/ AdvanceClock(Sim, dt).simulationTime > simulationTime
                   \/ ~AdvanceClock(Sim, dt).playing

Passed == (nextTripIndex + 1)..nextTripIndex'
JumpedNow == lastCall'.jumped
LaunchedNow == Passed \ JumpedNow
\* the orbs retired in this step and their trips
RetiredOrbs == {o \in ActiveSet : ~pool'[o].active}
TripsOn(p, orbs) == {p[o].trip : o \in orbs}

\* C13: jumped-over trips cost no pool slot. A trip the activation sweep reaches with
\* its endTime already elapsed is counted as started and as completed exactly once
\* each and the cursor moves past it, while the pool and the active-entity list are
\* left as they are: over one update(), the counters grow by exactly the trips passed
\* (started) and the trips jumped plus the orbs retired (completed), and the active
\* orbs change only by the retired orbs and one newly bound orb per launched trip.
C13_JumpedTripsCostNoSlot ==
    [][(UpdateStep /\ JumpedNow # {}) =>
          /\ \A i \in JumpedNow : /\ trips'[i].started /\ trips'[i].completed
                                   /\ i \notin TripsOn(pool', ActiveSet')
                                   /\ ~trips[i].started /\ ~trips[i].completed
          /\ nextTripIndex' >= nextTripIndex + Cardinality(JumpedNow)
          /\ startedCount' = startedCount + Cardinality(Passed)
          /\ completedCount' = completedCount + Cardinality(JumpedNow)
                                               + Cardinality(RetiredOrbs)
          /\ TripsOn(pool', ActiveSet') =
                 (TripsOn(pool, ActiveSet \ RetiredOrbs)) \cup LaunchedNow
          /\ Cardinality(ActiveSet') =
                 Cardinality(ActiveSet \ RetiredOrbs) + Cardinality(LaunchedNow)
          /\ LaunchedNow = {} =>
                 /\ \A o \in 1..Len(pool) \ RetiredOrbs : pool'[o] = pool[o]
                 /\ activeOrbs' = SelectSeq(activeOrbs, LAMBDA o : o \notin RetiredOrbs)]_vars

\* an update() jumped over a trip while an orb was active
C13_Witness ==
    /\ lastCall.op = "update" /\ lastCall.jumped # {}
    /\ Len(activeOrbs) > 0

\* the positions of activeOrbs' that hold an orb bound in this step
NewSlots == {n \in 1..Len(activeOrbs') : pool'[activeOrbs'[n]].trip \in LaunchedNow}

\* C14: activation cursor discipline. update() never decreases nextTripIndex, binds
\* trips to entities in index order, never leaves a trip with startTime >
\* simulationTime behind the cursor, and when pool acquisition fails it stops with
\* the cursor at the blocked trip, the failed attempt changing neither the cursor nor
\* the counters.
C14_CursorDiscipline ==
    [][UpdateStep =>
          /\ nextTripIndex' >= nextTripIndex
          /\ \A m, n \in NewSlots :
                 m < n => pool'[activeOrbs'[m]].trip < pool'[activeOrbs'[n]].trip
          /\ \A i \in 1..nextTripIndex' : trips'[i].startTime <= simulationTime'
          /\ lastCall'.exhausted =>
                 /\ nextTripIndex' < Len(trips)
                 /\ trips'[nextTripIndex' + 1].startTime <= simulationTime'
                 /\ simulationTime' < trips'[nextTripIndex' + 1].endTime
                 /\ ~trips'[nextTripIndex' + 1].started
                 /\ nextTripIndex' + 1 \notin TripsOn(pool', ActiveSet')
                 /\ startedCount' = startedCount + Cardinality(Passed)
                 /\ completedCount' = completedCount + Cardinality(JumpedNow)]_vars

\* an update() bound two trips and stopped at a third on an exhausted pool
C14_Witness ==
    /\ lastCall.op = "update" /\ lastCall.exhausted
    /\ nextTripIndex = 2 /\ Cardinality(hist.bound) = 2

\* C19: pause stops clock advancement and activation. In an update() executed with
\* playing = false the clock is unchanged and no trip is newly bound to an entity:
\* nextTripIndex, startedCount and the set of active trips do not grow. This includes
\* the update() that directly follows a resetTo() performed while paused.
C19_PauseStopsActivation ==
    [][(UpdateStep /\ ~playing) =>
          /\ simulationTime' = simulationTime
          /\ nextTripIndex' <= nextTripIndex
          /\ startedCount' <= startedCount
          /\ TripsOn(pool', ActiveSet') \subseteq TripsOn(pool, ActiveSet)]_vars

\* the position pos is the point p
AtPoint(pos, p) == pos # NaNPos /\ pos # NoPoint /\ pos.x = p.x * pos.d /\ pos.z = p.z * pos.d

\* C20: path parameterizer boundaries. For every trip with a prepared route,
\* positionOrb at t = 0 places the entity at the route's first point and at t = 1 at
\* the route's last point, in the x,z plane.
C20_PositionBoundaries ==
    lastCall.op = "positionOrb" =>
        LET trip == trips[lastCall.trip] IN
        /\ lastCall.prog = << 0, 1 >> => AtPoint(lastCall.pos, trip.path[1])
        /\ lastCall.prog = << 1, 1 >> => AtPoint(lastCall.pos, trip.path[Len(trip.path)])

ToggleStep == lastCall'.op = "toggleRoadType"

\* C18: a road-category toggle invalidates only future routes, and they are
\* recomputed on the rebuilt graph. After the toggle every trip not yet started has
\* its cached path, segment lengths and total length cleared, every started trip
\* keeps its cached route, and the router that the next prepareTripPath queries is
\* the one rebuilt from the currently enabled road types, with an empty cache.
C18_ToggleInvalidatesFutureRoutes ==
    [][ToggleStep =>
          /\ \A i \in 1..Len(trips) :
                 IF trips[i].started
                 THEN trips'[i] = trips[i]
                 ELSE /\ trips'[i].path = NullPath
                      /\ trips'[i].segLengths = << >>
                      /\ trips'[i].totalLength = 0
          /\ router' = rebuildRouter(mapGroup'.typeData)]_vars

\* the part of C18 about the trips alone
ToggleClearsUnstartedOnly ==
    [][ToggleStep =>
          \A i \in 1..Len(trips) :
              IF trips[i].started
              THEN trips'[i] = trips[i]
              ELSE /\ trips'[i].path = NullPath
                   /\ trips'[i].segLengths = << >>
                   /\ trips'[i].totalLength = 0]_vars

\* the length of the polyline path up to its point k, by the distances between
\* its points
RECURSIVE CumLen(_, _)
CumLen(path, k) ==
    IF k <= 1 THEN 0 ELSE CumLen(path, k - 1) + distanceTo(path[k - 1], path[k])

\* pos is the point of the polyline path at distance dn / dd from its first
\* point: it lies on a segment k whose span holds the distance, at the remaining
\* distance from the segment's first point
OnRouteAt(pos, path, dn, dd) ==
    /\ pos # NaNPos /\ pos # NoPoint
    /\ \E k \in 1..(Len(path) - 1) :
          LET a   == path[k]
              b   == path[k + 1]
              L   == distanceTo(a, b)
              rem == dn - CumLen(path, k) * dd
          IN  /\ 0 <= rem /\ rem <= L * dd
              /\ pos.x * L * dd = pos.d * (a.x * L * dd + (b.x - a.x) * rem)
              /\ pos.z * L * dd = pos.d * (a.z * L * dd + (b.z - a.z) * rem)
              /\ L > 0

\* the last call positioned the orb of a trip active at the clock
PositionedAtClock ==
    /\ lastCall.op = "positionOrb"
    /\ trips[lastCall.trip].startTime <= simulationTime
    /\ simulationTime < trips[lastCall.trip].endTime
    /\ lastCall.prog = << simulationTime - trips[lastCall.trip].startTime,
                          trips[lastCall.trip].endTime - trips[lastCall.trip].startTime >>

\* C21: position is parameterized by path distance. For a trip active at clock c,
\* progress = (c - startTime) / (endTime - startTime), and the entity is placed on
\* the trip's resolved route at distance progress * totalLength measured along the
\* polyline from its first point.
C21_PositionByPathDistance ==
    PositionedAtClock =>
        LET trip == trips[lastCall.trip] IN
        /\ trip.totalLength = CumLen(trip.path, Len(trip.path))
        /\ OnRouteAt(lastCall.pos, trip.path,
                     lastCall.prog[1] * trip.totalLength, lastCall.prog[2])

\* C21 for the trips whose pickup and dropoff points differ
PositionByPathDistanceOnProperTrips ==
    (PositionedAtClock /\ trips[lastCall.trip].startPos # trips[lastCall.trip].endPos)
        => C21_PositionByPathDistance

\* the last two moves were of one trip, the later one at a larger progress t
TwoMovesForward ==
    /\ lastCall.op = "moveActive"
    /\ lastCall.prev # << >>
    /\ lastCall.prev[1].trip = lastCall.trip
    /\ lastCall.prev[1].prog[1] * lastCall.prog[2] < lastCall.prog[1] * lastCall.prev[1].prog[2]

\* C22: the cumulative-distance walk is monotonic. For t1 < t2 in [0, 1] on the same
\* route, the segment index positionOrb selects for t2 is at least the one for t1,
\* and the number of vertices updateTrailProgress reveals (its draw range) for t2 is
\* at least the number for t1.
C22_WalkMonotonic ==
    TwoMovesForward =>
        /\ lastCall.prev[1].seg <= lastCall.seg
        /\ lastCall.prev[1].draw <= lastCall.draw

\* two moves of one trip, the later one on a later segment with more vertices shown
C22_Witness ==
    /\ TwoMovesForward
    /\ lastCall.prev[1].seg < lastCall.seg
    /\ lastCall.prev[1].draw < lastCall.draw

\* the number of edges from node a to node b of weight w
EdgeCount(G, a, b, w) ==
    Cardinality({n \in 1..Len(G.edges[a]) : G.edges[a][n].to = b /\ G.edges[a][n].w = w})

\* C23: road graph invariants. For every input set of polylines the built graph has no
\* self-loop edge, every edge weight equals the Euclidean distance between the stored
\* coordinates of its two nodes and is strictly positive, and the edges are
\* symmetric: each edge a -> b of weight w has a matching edge b -> a of weight w.
C23_GraphInvariants ==
    LET G == router.graph IN
    \A a \in Nodes(G) : \A n \in 1..Len(G.edges[a]) :
        LET e == G.edges[a][n] IN
        /\ e.to # a
        /\ e.to \in Nodes(G)
        /\ e.w > 0
        /\ e.w * e.w = Dist2(G.xz[a], G.xz[e.to])
        /\ EdgeCount(G, a, e.to, e.w) = EdgeCount(G, e.to, a, e.w)

\* a graph built from a polyline whose two points share a cell, and a street: the
\* first adds no edge, and (9, 0) resolves to the node stored at (5, 0)
C23_Witness ==
    /\ router.present
    /\ router.graph = buildRoadRouter(<< Roads[4], Roads[1] >>).graph
    /\ Cardinality(Nodes(router.graph)) = 3
    /\ lastCall.op = "route"

\* the polylines the map's router was built from, and their points
InputLines == EnabledPolylines(mapGroup.typeData, 1)
InputPoints == UNION {{InputLines[j][n] : n \in 1..Len(InputLines[j])} : j \in 1..Len(InputLines)}

\* the grid cell of a point: its coordinates rounded at the snapping precision
CellOf(p) == << RoundCell(p.x), RoundCell(p.z) >>

\* the node of the graph G that the point p resolves to
NodesOf(G, p) == {k \in Nodes(G) : CellOf(G.xz[k]) = CellOf(p)}

\* two three-point polylines that cross at their common middle point, their other
\* four points lying in four further cells
CrossAtSharedPoint ==
    /\ Len(InputLines) = 2
    /\ Len(InputLines[1]) = 3 /\ Len(InputLines[2]) = 3
    /\ InputLines[1][2] = InputLines[2][2]
    /\ Cardinality({CellOf(p) : p \in InputPoints}) = 5

\* C24: coordinate deduplication. Any two input points whose coordinates round to the
\* same grid cell resolve to the same node: every input point has exactly one node,
\* and there are as many nodes as cells holding an input point. A graph built from
\* two polylines crossing at a shared point has exactly one node there, where four
\* edges meet, two from each polyline.
C24_Deduplication ==
    LET G == mapGroup.roadRouter.graph IN
    /\ \A p \in InputPoints : Cardinality(NodesOf(G, p)) = 1
    /\ Cardinality(Nodes(G)) = Cardinality({CellOf(p) : p \in InputPoints})
    /\ Len(G.order) = Cardinality(Nodes(G))
    /\ CrossAtSharedPoint =>
          LET x == CHOOSE k \in NodesOf(G, InputLines[1][2]) : TRUE IN
          /\ Len(G.edges[x]) = 4
          /\ \A j \in 1..2 :
                Cardinality({n \in 1..Len(G.edges[x]) :
                                G.edges[x][n].to \in NodesOf(G, InputLines[j][1])
                                                     \cup NodesOf(G, InputLines[j][3])}) = 2

\* a graph built from two streets crossing at (0, 0), queried once
C24_Witness ==
    /\ CrossAtSharedPoint
    /\ InputLines[1][2] = Pt(0, 0)
    /\ Len(mapGroup.roadRouter.graph.order) = 5
    /\ lastCall.op = "route"

\* two streets whose middle points differ but share a cell are merged as well
MergedByCell ==
    /\ Len(InputLines) = 2
    /\ InputLines[1][2] = Pt(0, 0) /\ InputLines[2][2] = Pt(-5, 0)
    /\ Len(mapGroup.roadRouter.graph.order) = 5

PrepareStep == lastCall'.op = "prepareTripPath"

\* C25: lazy, once-only route resolution with a two-point minimum. A prepareTripPath
\* on a trip whose route is already cached leaves its path, segment lengths and total
\* length unchanged and does not query the router; after any prepareTripPath the
\* trip's path has at least two points, one segment length per segment, also when
\* the router answers null or a single-node path.
C25_LazyRouteOnce ==
    [][PrepareStep =>
          LET i == lastCall'.trip IN
          /\ Len(trips'[i].path) >= 2
          /\ Len(trips'[i].segLengths) = Len(trips'[i].path) - 1
          /\ trips[i].path # NullPath => (trips'[i] = trips[i] /\ router' = router)
          /\ \A j \in 1..Len(trips) : j # i => trips'[j] = trips[j]]_vars

\* a repeated prepareTripPath on a trip whose start and end snap to one node of a
\* graph with several nodes: the route stored is the straight two-point fallback
C25_Witness ==
    /\ lastCall.op = "prepareTripPath" /\ lastCall.hit
    /\ router.present /\ Len(router.graph.order) > 1
    /\ trips[lastCall.trip].startPos # trips[lastCall.trip].endPos
    /\ nearestNode(router.graph, trips[lastCall.trip].startPos)
           = nearestNode(router.graph, trips[lastCall.trip].endPos)
    /\ trips[lastCall.trip].path
           = << trips[lastCall.trip].startPos, trips[lastCall.trip].endPos >>

\* the nodes of G stored at the point p
NodeAt(G, p) == {k \in Nodes(G) : G.xz[k] = p}

\* path is a walk in G from node s to node t that repeats no node
ValidWalk(G, path, s, t) ==
    /\ Len(path) >= 1
    /\ path[1] = G.xz[s]
    /\ path[Len(path)] = G.xz[t]
    /\ \A n \in 1..Len(path) : NodeAt(G, path[n]) # {}
    /\ \A n \in 1..(Len(path) - 1) :
          \E a \in NodeAt(G, path[n]) : \E m \in 1..Len(G.edges[a]) :
              G.edges[a][m].to \in NodeAt(G, path[n + 1])
    /\ \A m, n \in 1..Len(path) : m # n => path[m] # path[n]
    /\ s = t => Len(path) = 1

\* C26: a non-null route is a valid walk in the graph. Its first point is the snapped
\* start node, its last point the snapped end node, every consecutive pair of points
\* is joined by a graph edge and no node repeats; when start and end snap to the
\* same node the result is the single-node path.
C26_RouteIsValidWalk ==
    (RouteAnswered /\ lastCall.result # NullPath) =>
        ValidWalk(router.graph, lastCall.result, LastS, LastT)

\* C26 for the answers that route() computed by its search
SearchedRouteIsValidWalk ==
    (RouteAnswered /\ ~lastCall.hit /\ lastCall.result # NullPath) =>
        ValidWalk(router.graph, lastCall.result, LastS, LastT)

\* ---------------------------------------------------------------------------
\* the pool after deactivateOrb() on entity o
Released(p, o) == [p EXCEPT ![o] = deactivateOrb(p[o])]

\* C27: release is idempotent. For every entity of the pool, in every state the
\* scheduler reaches (never bound, bound, released before): deactivateOrb leaves it
\* inactive with no trip, a second application changes nothing that the first has
\* not, and the rest of the pool is as it was.
C27_ReleaseIdempotent ==
    \A o \in 1..Len(pool) :
        /\ ~Released(pool, o)[o].active
        /\ Released(pool, o)[o].trip = 0
        /\ Released(Released(pool, o), o) = Released(pool, o)
        /\ \A q \in 1..Len(pool) : q # o => Released(pool, o)[q] = pool[q]
        /\ (~pool[o].active /\ pool[o].baseScale = 40) => Released(pool, o) = pool

\* an update has released an entity while another is still bound: release applies to
\* an entity released before, to a bound one and to the pool that holds both
C27_Witness ==
    /\ lastCall.op = "update"
    /\ \E o \in 1..Len(pool) : ~pool[o].active /\ pool[o].baseScale = 40
    /\ \E o \in 1..Len(pool) : pool[o].active /\ pool[o].trip # 0

\* ---------------------------------------------------------------------------
\* the entities of the active list that hold trip i
OrbsOf(p, orbs, i) == {o \in 1..Len(p) : p[o].trip = i /\ \E k \in 1..Len(orbs) : orbs[k] = o}

\* where trip i stands, given the pool, the active list and the cursor
Phase(p, orbs, cursor, i) ==
    IF OrbsOf(p, orbs, i) # {} THEN "active"
    ELSE IF i > cursor THEN "pending" ELSE "retired"

\* C28: trip lifecycle only moves forward. Over every update(): a retired trip stays
\* retired (it is never bound again); an active trip stays on the same entity or is
\* retired; a pending trip is retired directly only when it was jumped over, and when
\* it is bound its entity has no finish phase yet; an entity's finish phase starts
\* only on an entity bound before this frame whose spawn phase has ended and whose
\* trip has less than 5% of its progress left, and it stays set while the entity
\* holds the trip.
C28_LifecycleForward ==
    [][UpdateStep =>
        \A i \in 1..Len(trips) :
            LET before == Phase(pool, activeOrbs, nextTripIndex, i)
                after == Phase(pool', activeOrbs', nextTripIndex', i)
                held == OrbsOf(pool, activeOrbs, i)
                holds == OrbsOf(pool', activeOrbs', i)
            IN  /\ before = "retired" => after = "retired"
                /\ before = "active" => after = "retired" \/ holds = held
                /\ before = "pending" /\ after = "retired" => i \in lastCall'.jumped
                /\ after = "retired" => trips'[i].completed
                /\ \A o \in holds :
                       /\ o \in held /\ pool[o].finishStarted => pool'[o].finishStarted
                       /\ pool'[o].finishStarted /\ ~(o \in held /\ pool[o].finishStarted)
                             => /\ o \in held
                                /\ o \in lastCall'.settled
                                /\ NearEnd(trips[i], simulationTime')]_vars

\* an entity is in its finish phase, another was released after its finish phase,
\* and a trip was retired without ever being bound
C28_Witness ==
    /\ lastCall.op = "update"
    /\ \E o \in 1..Len(pool) : pool[o].active /\ pool[o].finishStarted
    /\ \E o \in 1..Len(pool) : ~pool[o].active /\ pool[o].finishStarted
    /\ \E i \in 1..Len(trips) : trips[i].completed /\ i \notin hist.bound

\* ---------------------------------------------------------------------------
\* C29: ingestion establishes the scheduler's input precondition. For every row set
\* (unparsable dates, dropoff before, at or after the pickup, trips over midnight,
\* pickups on different days in any row order), the trip list given to the
\* constructor is sorted ascending by startTime and every trip has
\* endTime > startTime.
C29_IngestedTripsSorted ==
    /\ \A k \in 1..(Len(trips) - 1) : trips[k].startTime <= trips[k + 1].startTime
    /\ \A k \in 1..Len(trips) : trips[k].endTime > trips[k].startTime

\* the list holds a late trip of the first day (over midnight) before an early trip
\* of the second day, whose seconds of the day are in the opposite order
C29_Witness ==
    /\ Len(trips) >= 2
    /\ \E k \in 1..(Len(trips) - 1) :
           /\ trips[k].startTime = 86000 /\ trips[k].endTime > DaySec
           /\ trips[k + 1].startTime = DaySec + 100

\* ---------------------------------------------------------------------------
\* the counters agree with the active entities and lie within the trip list
CountersConsistent ==
    /\ startedCount = completedCount + Cardinality(ActiveSet)
    /\ 0 <= completedCount
    /\ completedCount <= startedCount
    /\ startedCount <= Len(trips)

\* C30: counter consistency. In every state after an update() or a resetTo(), for
\* any pool capacity, startedCount = completedCount + the number of active entities,
\* and 0 <= completedCount <= startedCount <= trips.length.
C30_CounterConsistency ==
    lastCall.op \in {"update", "resetTo"} => CountersConsistent

\* The same with a pool that holds as many entities as there are trips
CounterConsistencyWithFullPool ==
    (lastCall.op \in {"update", "resetTo"} /\ Len(pool) >= Len(trips)) => CountersConsistent

\* ---------------------------------------------------------------------------
\* no entity is active and every trip is counted as started and as completed
RunComplete ==
    /\ ActiveSet = {}
    /\ Len(activeOrbs) = 0
    /\ completedCount = Len(trips)
    /\ startedCount = Len(trips)

\* the update() that has just returned paused playback at the last trip's endTime
AutoPaused == lastCall.op = "update" /\ lastCall.autoPaused

\* C31: when playback auto-pauses at the final trip's endTime the run is complete.
\* In the state after the update() that paused, no entity is active and
\* completedCount = startedCount = trips.length, for every trip list sorted by
\* startTime with endTime > startTime.
C31_AutoPauseCompletesRun == AutoPaused => RunComplete

\* The same with a pool that holds every trip
AutoPauseCompletesRunWithFullPool ==
    (AutoPaused /\ Len(pool) >= Len(trips)) => RunComplete

\* The same with a pool that holds every trip, on lists whose last trip ends last
AutoPauseCompletesRunWhenLastEndsLast ==
    (/\ AutoPaused
     /\ Len(pool) >= Len(trips)
     /\ \A i \in 1..Len(trips) : trips[i].endTime <= trips[Len(trips)].endTime)
        => RunComplete

\* ---------------------------------------------------------------------------
\* the trips whose window holds the clock t, and those started and ended by t
InWindowAt(t) == {i \in 1..Len(trips) : trips[i].startTime <= t /\ t < trips[i].endTime}
StartedBy(t) == {i \in 1..Len(trips) : trips[i].startTime <= t}
EndedBy(t) == {i \in 1..Len(trips) : trips[i].endTime <= t}

\* the trips bound to the entities of the active list
BoundTrips == {pool[activeOrbs[k]].trip : k \in 1..Len(activeOrbs)}

\* the bound trips and the counters are those that belong to the clock t
StateOfClock(t, p, orbs, started, completed) ==
    /\ {p[orbs[k]].trip : k \in 1..Len(orbs)} = InWindowAt(t)
    /\ Len(orbs) = Cardinality(InWindowAt(t))
    /\ started = Cardinality(StartedBy(t))
    /\ completed = Cardinality(EndedBy(t))

\* C32: scrubbing agrees with playing. With a pool at least as large as the trip
\* list, the state after resetTo(t) followed by update(0) and the state after playing
\* from the first trip's start, by ticks of any size, to the clock t are the same
\* function of t: the trips bound to active entities are those with
\* startTime <= t < endTime, startedCount counts the trips with startTime <= t and
\* completedCount those with endTime <= t.
C32_ScrubAgreesWithPlay ==
    [][(UpdateStep /\ Len(pool) >= Len(trips)) =>
          /\ hist'.run = "resynced" =>
                 StateOfClock(simulationTime, pool', activeOrbs',
                              startedCount', completedCount')
          /\ hist'.run = "played" =>
                 StateOfClock(simulationTime', pool', activeOrbs',
                              startedCount', completedCount')]_vars

\* resetTo(t) and update(0) have run at a clock where a trip is under way and
\* another has ended
C32_Witness ==
    /\ lastCall.op = "update"
    /\ hist.run = "resynced"
    /\ Len(pool) >= Len(trips)
    /\ \E i \in InWindowAt(simulationTime) : trips[i].startTime < simulationTime
    /\ EndedBy(simulationTime) # {}
    /\ BoundTrips # {}

\* playing alone has reached a clock of the same kind
PlayedToSameClock ==
    /\ lastCall.op = "update"
    /\ hist.run = "played"
    /\ Len(pool) >= Len(trips)
    /\ \E i \in InWindowAt(simulationTime) : trips[i].startTime < simulationTime
    /\ EndedBy(simulationTime) # {}
    /\ BoundTrips # {}

\* ---------------------------------------------------------------------------
\* the segments k of the trip's route with acc + segLen >= targetDist, where
\* targetDist = (tn / td) * total; the walk selects the first of them
ReachingSegments(trip, total, tn, td) ==
    {k \in 1..Len(trip.segLengths) : SumSeq(trip.segLengths, k) * td >= tn * total}

\* the segment the walk selects has a length > 0 and the local fraction
\* (targetDist - acc) / segLen lies in [0, 1]; nothing to show when the walk selects
\* no segment
FractionDefined(trip, total, tn, td) ==
    ReachingSegments(trip, total, tn, td) # {} =>
        LET k == CHOOSE n \in ReachingSegments(trip, total, tn, td) :
                     \A m \in ReachingSegments(trip, total, tn, td) : n <= m
            num == tn * total - SumSeq(trip.segLengths, k - 1) * td
        IN  /\ trip.segLengths[k] > 0
            /\ 0 <= num
            /\ num <= trip.segLengths[k] * td

\* positionOrb and updateTrailProgress have just run on a prepared trip
Interpolated == lastCall.op = "moveActive" /\ trips[lastCall.trip].path # NullPath

\* C33: interpolation never divides by a zero-length segment. For every route that
\* prepareTripPath stores (router path or straight fallback, trips whose start and
\* end coincide included) and every progress t, the segment selected by positionOrb
\* (targetDist = t * totalLength) and the one selected by updateTrailProgress
\* (targetDist = t * (totalLength || 1)) has length > 0 and the local fraction lies
\* in [0, 1].
C33_NoZeroLengthSegment ==
    Interpolated =>
        /\ FractionDefined(trips[lastCall.trip], trips[lastCall.trip].totalLength,
                           lastCall.prog[1], lastCall.prog[2])
        /\ FractionDefined(trips[lastCall.trip],
                           IF trips[lastCall.trip].totalLength # 0
                           THEN trips[lastCall.trip].totalLength ELSE 1,
                           lastCall.prog[1], lastCall.prog[2])

\* The same for the trips whose start and end positions differ
NoZeroLengthSegmentOnProperTrips ==
    (Interpolated /\ trips[lastCall.trip].startPos # trips[lastCall.trip].endPos)
        => C33_NoZeroLengthSegment

\* the segment found above is the one the walk of positionOrb stops at
SelectedSegmentIsFirstReaching ==
    Interpolated =>
        LET trip == trips[lastCall.trip]
            R == ReachingSegments(trip, trip.totalLength, lastCall.prog[1], lastCall.prog[2])
        IN  IF R = {} THEN lastCall.seg = Len(trip.path) - 1
            ELSE lastCall.seg + 1 \in R /\ \A m \in R : lastCall.seg + 1 <= m

\* ---------------------------------------------------------------------------
\* a gap check now would reach handleGapAcceleration with a gap that is not negative
AtGapCheck ==
    /\ playing
    /\ Len(activeOrbs) = 0
    /\ nextTripIndex < Len(trips)
    /\ trips[nextTripIndex + 1].startTime >= simulationTime

GapAhead == trips[nextTripIndex + 1].startTime - simulationTime

\* five times the target speed of the tier of gap g at nominal speed u
TierTargetTimes5(g, u) ==
    IF g > 3600 THEN 5 * 10000
    ELSE IF g > 300 THEN 5 * 1000
    ELSE Max(5 * u, Min(5 * 1000, g))

\* speed b is speed a moved toward the target (given times 5) by at most 10 * u,
\* all the way when the target is that near
SteppedToward(a, b, target5, u) ==
    /\ (5 * a <= target5) => (a <= b /\ 5 * b <= target5)
    /\ (5 * a >= target5) => (a >= b /\ 5 * b >= target5)
    /\ Abs(b - a) <= 10 * u
    /\ 5 * b = target5 \/ Abs(b - a) = 10 * u

\* C34: the gap-speed tier function. At a gap check with no active entity and gap g
\* to the next pending trip: no acceleration is applied iff g / userSpeed <= 5;
\* otherwise the target is 10000 when g > 3600, 1000 when 300 < g <= 3600 and
\* max(userSpeed, min(1000, g / 5)) when g <= 300, speed moves toward the target by
\* at most 10 * userSpeed, and it ends within [userSpeed, 10000].
C34_GapSpeedTiers ==
    AtGapCheck =>
        /\ GapChecked.gapAccelActive <=> (GapAhead > 5 * userSpeed)
        /\ ~GapChecked.gapAccelActive =>
               GapChecked.speed = (IF gapAccelActive THEN userSpeed ELSE speed)
        /\ GapChecked.gapAccelActive =>
               /\ SteppedToward(speed, GapChecked.speed,
                                TierTargetTimes5(GapAhead, userSpeed), userSpeed)
               /\ userSpeed <= GapChecked.speed
               /\ GapChecked.speed <= 10000
        /\ GapChecked.userSpeed = userSpeed

\* an update() has run a gap check that took one step of 10 * userSpeed toward a
\* target still further away
C34_Witness ==
    /\ lastCall.op = "update"
    /\ AtGapCheck
    /\ gapAccelActive
    /\ speed = 11 * userSpeed
    /\ 5 * speed < TierTargetTimes5(GapAhead, userSpeed)

\* states at a gap check in each tier and below the threshold
GapTierAdaptive == AtGapCheck /\ GapAhead > 5 * userSpeed /\ GapAhead <= 300
GapTierModerate == AtGapCheck /\ GapAhead > 300 /\ GapAhead <= 3600
GapTierExtreme == AtGapCheck /\ GapAhead > 3600
GapTierNone == AtGapCheck /\ GapAhead <= 5 * userSpeed /\ gapAccelActive
GapSlowingDown == AtGapCheck /\ 5 * speed > TierTargetTimes5(GapAhead, userSpeed) /\ GapAhead > 5 * userSpeed

\* ---------------------------------------------------------------------------
\* C35: the acceleration flag and the speed stay coupled. In every state reachable
\* through update(), resetTo() and the speed selector, gapAccelActive = false
\* implies speed = userSpeed.
C35_FlagSpeedCoupled == ~gapAccelActive => speed = userSpeed

\* the speed selector was used after a gap check had raised the speed and a later
\* one had cleared the flag
C35_Witness ==
    /\ lastCall.op = "setUserSpeed"
    /\ ~gapAccelActive
    /\ completedCount > 0
    /\ speed = userSpeed
    /\ userSpeed # InitialSpeed

\* ---------------------------------------------------------------------------
\* the scheduler record S as the gap check of update() finds it, S being the record
\* after the activation sweep
AtGapCheckOf(S) == IF S.ret THEN S ELSE AdvanceActive(S, Len(S.activeOrbs))

\* if the gap check on record A reaches the gap computation, the next pending trip
\* starts after the clock
GapIsPositive(A) ==
    (/\ ~A.ret
     /\ A.playing
     /\ Len(A.activeOrbs) = 0
     /\ A.nextTripIndex < Len(A.trips))
        => A.trips[A.nextTripIndex + 1].startTime > A.simulationTime

\* C36: at every gap check that reaches the gap computation (playing, no active
\* entity, a pending trip), the next pending trip's startTime is strictly greater
\* than simulationTime: the gap is positive and the day-transition branch of
\* updateGapAcceleration is not taken. Stated for the update() of every frame that
\* can follow the current state.
C36_GapIsPositive ==
    \A dt \in DtSet \cup GapDtSet :
        GapIsPositive(AtGapCheckOf(ActivationSweep(AdvanceClock(Sim, dt))))

\* an update() has just retired the last active entity with a trip still pending, so
\* its gap check computed the gap
C36_Witness ==
    /\ lastCall.op = "update"
    /\ playing
    /\ Len(activeOrbs) = 0
    /\ nextTripIndex < Len(trips)
    /\ completedCount > 0
    /\ completedCount = startedCount
    /\ trips[nextTripIndex + 1].startTime > simulationTime
    /\ gapAccelActive

\* ---------------------------------------------------------------------------
\* the entities this update() has bound: active now, and inactive or on another
\* trip before
BoundNow == {o \in 1..Len(pool) : pool'[o].active /\ pool'[o].trip # 0
                                  /\ (~pool[o].active \/ pool[o].trip # pool'[o].trip)}

\* C37: pool reuse does not leak the previous trip's destination label. Whenever
\* update() binds an entity, the label on the entity after the call is the one
\* derived from the destination of the trip it is now bound to, also when the entity
\* carried another trip before.
C37_LabelOfBoundTrip ==
    [][UpdateStep =>
          \A o \in BoundNow : pool'[o].label = LabelFor(trips'[pool'[o].trip])]_vars

\* The same for the entities that carried no label when they were bound
LabelOfBoundTripOnFreshEntity ==
    [][UpdateStep =>
          \A o \in BoundNow : pool[o].label = NoLabel =>
                                  pool'[o].label = LabelFor(trips'[pool'[o].trip])]_vars

=============================================================================
